---------------------------- MODULE Spec2Model ----------------------------
(***************************************************************************)
(* DendyWM: the kiosk window-manager policy, as the repository implements  *)
(* it.  The repository holds four window managers:                         *)
(*   "W"   src/src/dendy_wm/dendy_wm.c   wlroots compositor                *)
(*   "X1"  src/unnamed/part_001          Xlib, press-to-close, window_zero *)
(*   "X2"  src/unnamed/part_002          Xlib, hold-to-close, class        *)
(*                                       WindowManager                     *)
(*   "X3"  src/unnamed/part_003          Xlib, class WindowManager         *)
(*                                       without hotkey                    *)
(* One behaviour of the model is one run of one of them (variable          *)
(* variant, fixed by Init).  The display server, the clients and the user  *)
(* are the environment: each action is one event of the environment        *)
(* together with the whole handler the window manager runs for it.         *)
(***************************************************************************)
EXTENDS Integers, Sequences, FiniteSets

(***************************************************************************)
(* Bounds of the model.                                                    *)
(***************************************************************************)
\* Window ids are 1..MaxWin, handed out in order and never reused.
MaxWin == 2
\* The clock counts ticks of 1/TicksPerSec second.
TicksPerSec == 2
\* The clock stops at MaxSec seconds.
MaxSec == 3
\* At most MaxOutputs outputs are plugged in at a time (compositor).
MaxOutputs == 1

MaxTime == MaxSec * TicksPerSec
\* At most MaxSock events have arrived on the X connection and are not
\* dispatched.
MaxSock == 2

(***************************************************************************)
(* Program constants.                                                      *)
(***************************************************************************)
\* part_002:148  duration.count() >= 2000
HoldMs == 2000
\* dendy_wm.c:291  seconds >= 2
HoldSec == 2
\* part_002:40-41  DisplayWidth / DisplayHeight of the default screen
screen_width_ == 1920
screen_height_ == 1080
\* dendy_wm.c:496  the pid fork() returned to the parent (any pid > 0)
home_pid == 100
\* X11 None, and "no window" in the model's top and focus
None == 0
\* dendy_wm.c:392  char home_application[256]
BufSize == 256
\* The process has not exited.
NoExit == -1
\* No iteration of the event loop has waited yet.
NoWait == [how |-> "none", pressed |-> FALSE, queued |-> 0, timedOut |-> FALSE]
\* No home path yet (home_application zeroed, app_path_ not set).
NoPath == [src |-> "none", len |-> 0]
\* The lengths of the paths tried: short, and around the buffer size.
PathLens == {1, BufSize - 1, BufSize}
\* The configuration file: missing or unreadable, empty, or with a first line
\* of len characters followed by a newline (nl) or by the end of the file.
CfgFiles ==
    {[kind |-> "missing", len |-> 0, nl |-> FALSE],
     [kind |-> "empty", len |-> 0, nl |-> FALSE]}
    \cup {[kind |-> "line", len |-> l, nl |-> TRUE] : l \in PathLens \cup {0}}
    \cup {[kind |-> "line", len |-> l, nl |-> FALSE] : l \in PathLens}

Variants == {"W", "X1", "X2", "X3"}
XVariants == {"X1", "X2", "X3"}
Windows == 1..MaxWin
Owners == {"home", "game"}

GeomFields == {"x", "y", "width", "height"}
\* The geometry a client gives its window, and asks for in a configure request.
ClientGeom == [x |-> 10, y |-> 10, width |-> 400, height |-> 300]
\* The geometry of the output.
FullGeom == [x |-> 0, y |-> 0, width |-> screen_width_, height |-> screen_height_]
\* The value masks of the configure requests the clients send.
ValueMasks ==
    { {"width", "height"}, {"x", "y", "width", "height"}, {"x", "y", "stack"} }
NoCfg == [mask |-> {}, changes |-> FullGeom, sent |-> FALSE]
\* No key event, and the log of a handler that got no key event and sent none.
NoKeyEvent == [keycode |-> 0, state |-> "none"]
NoKey == [event |-> NoKeyEvent, to |-> None, sent |-> NoKeyEvent, times |-> 0]
\* Press and release, and the key event of keycode k in state st.
KeyStates == {"pressed", "released"}
KeyEvent(k, st) == [keycode |-> k, state |-> st]

VARIABLES
    variant,            \* which window manager runs
    running,            \* the window manager process has not exited
    \* ---- display server and clients
    wst,                \* window -> "free" | "unmapped" | "mapped" | "gone"
    wowner,             \* window -> "none" | "home" | "game": the client owning it
    geom,               \* window -> its geometry on the server
    top,                \* the window last raised to the top (None: another one)
    focus,              \* the window with input focus (None: none)
    outputs,            \* number of outputs
    hasKeyboard,        \* the seat has a keyboard
    pend,               \* windows the WM destroyed whose notify is not yet read
    \* ---- time and user
    now,                \* the monotonic clock, in ticks
    physDown,           \* the user holds the hotkey down
    holdStart,          \* the tick at which the user pressed it
    homeAlive,          \* a home application process is running
    homeOutlived,       \* a home application process runs on after the surface
                        \* designated home for it was destroyed
    \* ---- part_002 / part_003: class WindowManager
    client_windows_,
    initial_window_,
    super_key_pressed_,
    super_press_start_,
    \* ---- part_001
    window_zero,
    super_key_down,
    \* ---- dendy_wm.c: KioskCompositor, KioskWindow, KioskKeyboard
    windows,            \* compositor.windows, head first
    wpid,               \* window -> KioskWindow.pid
    wmapped,            \* window -> KioskWindow.mapped
    first_window,
    enter_held,
    enter_press_time,
    \* ---- what the last dispatched handler did
    ev,                 \* the kind of the event
    evw,                \* the window of the event
    closed,             \* the windows it sent a close request to
    sentcfg,            \* the XConfigureWindow call it made
    fired,              \* it ran the close-all branch
    asked,              \* the windows the last close-all asked to close that
                        \* are not destroyed yet, nothing new having appeared
    launches,           \* launches of the home application so far
    homeEnds,           \* home surfaces destroyed so far
    trigInHold,         \* close-alls since the user pressed the hotkey
    keylog,             \* for a key event other than the hotkey grabbed by an
                        \* Xlib window manager: the event, the surface it was
                        \* passed on to, the event as that surface got it and
                        \* how many times it was passed on
    \* ---- the process: main() up to the event loop, and the home child
    pc,                 \* where main() is: a startup step, "loop" or "exited"
    exitCode,           \* the exit code of the process (NoExit: not exited)
    argLen,             \* length of argv[1] (0: no argument given)
    cfg,                \* the configuration file /etc/dendy/home_application
    home_application,   \* the home path resolved (NoPath: none yet)
    otherWM,            \* the display is owned by another display manager
    envSet,             \* the process has set the display environment variable
    hstate,             \* the home child: "none" | "forked" | "running" |
                        \* "zombie" | "reaped"
    hstatus,            \* its exit status once terminated
    henv,               \* the display variable was set when it was forked
    childOnDisplay,     \* the child used the parent's display connection
    forkFailed,         \* a fork() of the process has failed
    startFailed,        \* the startup step that failed ("none": none)
    \* ---- part_002's event_loop, iteration by iteration
    sock,               \* events that arrived on the connection, not yet read
    xqueue,             \* events Xlib has read and not yet handed out
    waited,             \* how the last iteration waited for its event
    blocked,            \* XNextEvent found no event in what had arrived and
                        \* sleeps until one comes
    unflushed,          \* the windows named by requests in Xlib's output buffer
    errorDue            \* the server got a request that failed, its error has
                        \* not arrived yet

(***************************************************************************)
(* dendy_launcher: the application grid started as the home application.   *)
(* Times are in hundredths of a second.                                    *)
(***************************************************************************)
INITIAL_WINDOW_WIDTH == 1920
MIN_GRID_COLS == 3
MAX_GRID_COLS == 5
CELL_WIDTH == 300
FADE_IN_DURATION == 10
TILE_STAGGER_DELAY == 3
TILE_ANIMATION_DURATION == 50
LAUNCH_ANIMATION_DURATION == 60
\* static float gamepadCooldown is set to 0.2f after a gamepad move
GamepadCooldownTime == 20

\* most desktop entries with an icon on the disk
MaxApps == 4
\* the timers are followed up to this value; every threshold lies below it
MaxTimer == 100
\* GetFrameTime() of one frame
FrameTimes == {30, 50}
\* GetScreenWidth() of one frame
Widths == {900, INITIAL_WINDOW_WIDTH}

\* int CalculateGridColumns(int windowWidth): std::clamp(cols, MIN, MAX)
CalculateGridColumns(windowWidth) ==
    LET cols == windowWidth \div CELL_WIDTH
    IN  IF cols < MIN_GRID_COLS THEN MIN_GRID_COLS
        ELSE IF cols > MAX_GRID_COLS THEN MAX_GRID_COLS ELSE cols

VARIABLES
    lpc,                  \* Run(): "load", then per frame "update" and "input"
    apps,                 \* std::vector of entries: apps[i + 1] is the exec of entry i
    selectedIndex,
    currentGridCols,
    lastWindowWidth,
    animState,            \* "ANIM_FADE_IN", "ANIM_NORMAL", "ANIM_LAUNCHING"
    animTimer,
    pendingLaunchCommand, \* <<>> when empty, else <<exec>>
    wasFocusedLastFrame,
    gamepadCooldown,
    frameTime,            \* GetFrameTime() of the current frame
    focused,              \* IsWindowFocused() in the current frame
    prevFocused,          \* ... and in the frame before
    inputSeen,            \* HandleInput found a click, a key, the stick or a button
    calls,                \* the LaunchApp calls of the frame that began the launch under way
    ran                   \* the commands passed to system() since the last LaunchApp

launcherVars == <<lpc, apps, selectedIndex, currentGridCols, lastWindowWidth, animState,
                  animTimer, pendingLaunchCommand, wasFocusedLastFrame, gamepadCooldown,
                  frameTime, focused, prevFocused, inputSeen, calls, ran>>

\* AppLauncher::AppLauncher(): the member initialisers
AppLauncher ==
    /\ lpc = "load"
    /\ apps = <<>>
    /\ selectedIndex = 0
    /\ currentGridCols = CalculateGridColumns(INITIAL_WINDOW_WIDTH)
    /\ lastWindowWidth = INITIAL_WINDOW_WIDTH
    /\ animState = "ANIM_FADE_IN"
    /\ animTimer = 0
    /\ pendingLaunchCommand = <<>>
    /\ wasFocusedLastFrame = TRUE
    /\ gamepadCooldown = 0
    /\ frameTime = 0
    /\ focused = TRUE
    /\ prevFocused = TRUE
    /\ inputSeen = FALSE
    /\ calls = <<>>
    /\ ran = <<>>


serverVars == <<wst, wowner, geom, top, focus, outputs, hasKeyboard, pend>>
userVars == <<now, physDown, holdStart, homeAlive, homeOutlived>>
x2Vars == <<client_windows_, initial_window_, super_key_pressed_, super_press_start_>>
x1Vars == <<window_zero, super_key_down>>
wVars == <<windows, wpid, wmapped, first_window, enter_held, enter_press_time>>
logVars == <<ev, evw, closed, sentcfg, fired, asked, launches, homeEnds, trigInHold,
             keylog>>
procVars == <<pc, exitCode, argLen, cfg, home_application, otherWM, envSet, hstate,
              hstatus, henv, childOnDisplay, forkFailed, startFailed>>
loopVars == <<sock, xqueue, waited, blocked, unflushed, errorDue>>
vars == <<variant, running, serverVars, userVars, x2Vars, x1Vars, wVars, logVars,
          procVars, loopVars, launcherVars>>

(***************************************************************************)
(* Helpers.                                                                *)
(***************************************************************************)
Range(s) == { s[i] : i \in 1..Len(s) }

\* std::find + erase: the sequence without the first occurrence of x
RECURSIVE RemoveFirst(_, _)
RemoveFirst(s, x) ==
    IF s = <<>> THEN <<>>
    ELSE IF Head(s) = x THEN Tail(s)
    ELSE <<Head(s)>> \o RemoveFirst(Tail(s), x)

\* std::vector::back
Back(s) == s[Len(s)]

\* duration_cast<milliseconds>(t1 - t0).count()
ElapsedMs(t0, t1) == ((t1 - t0) * 1000) \div TicksPerSec

\* timespec.tv_sec of the clock value t
TvSec(t) == t \div TicksPerSec

\* (for comparison, a ConfigureWindow that takes the values as offsets from
\* the current geometry)
ApplyConfigureRelative(g, mask, changes) ==
    [f \in GeomFields |-> IF f \in mask THEN g[f] + changes[f] ELSE g[f]]

\* The X server's ConfigureWindow: the masked fields take the values given.
ApplyConfigure(g, mask, changes) ==
    [f \in GeomFields |-> IF f \in mask THEN changes[f] ELSE g[f]]

\* The windows that exist on the server (XQueryTree's children of the root).
Alive == { w \in Windows : wst[w] \in {"unmapped", "mapped"} }

\* The next window id a client gets.
FreshWindow(w) ==
    /\ wst[w] = "free"
    /\ \A v \in Windows : v < w => wst[v] # "free"

\* The home application has shown a window: games are started from it.
HomeWasUp == \E w \in Windows : wowner[w] = "home" /\ wst[w] \in {"mapped", "gone"}

CanOwn(o) == IF o = "home" THEN homeAlive ELSE HomeWasUp

\* The windows still to be destroyed after the event k of window w, which
\* sent close requests to c if f: a new window ends the observation.
AskedAfter(k, w, c, f) ==
    IF f THEN c
    ELSE IF k \in {"create", "map"} THEN {}
    ELSE IF k = "destroy" THEN asked \ {w}
    ELSE asked

LogKey(k, w, c, s, f, key) ==
    /\ ev' = k
    /\ evw' = w
    /\ closed' = c
    /\ sentcfg' = s
    /\ fired' = f
    /\ asked' = AskedAfter(k, w, c, f)
    /\ keylog' = key

Log(k, w, c, s, f) == LogKey(k, w, c, s, f, NoKey)

\* The user's hold counts the close-alls issued during it.
CountTrigger == trigInHold' = IF trigInHold < 2 THEN trigInHold + 1 ELSE 2

(***************************************************************************)
(* The registry and the home designation, per window manager.              *)
(***************************************************************************)
Registered ==
    CASE variant = "W" -> Range(windows)
      [] variant = "X1" -> Alive
      [] OTHER -> Range(client_windows_)

HomeSurfaces ==
    CASE variant = "W" -> { w \in Range(windows) : wpid[w] = home_pid }
      [] variant = "X1" -> { w \in Alive : w = window_zero }
      [] variant = "X2" -> { w \in Range(client_windows_) : w = initial_window_ }
      [] OTHER -> {}

(***************************************************************************)
(* Initial state: the window manager has started and launched the home     *)
(* application; no client has created a window yet.                        *)
(***************************************************************************)
\* The display server, the clients, the user and the window manager's
\* records when the event loop is entered.
WindowsInit ==
    /\ variant \in Variants
    /\ wst = [w \in Windows |-> "free"]
    /\ wowner = [w \in Windows |-> "none"]
    /\ geom = [w \in Windows |-> ClientGeom]
    /\ top = None
    /\ focus = None
    /\ outputs \in (IF variant = "W" THEN 0..1 ELSE {1})
    /\ hasKeyboard \in (IF variant = "W" THEN BOOLEAN ELSE {TRUE})
    /\ pend = {}
    /\ now = 0
    /\ physDown = FALSE
    /\ holdStart = 0
    /\ homeAlive = TRUE
    /\ homeOutlived = FALSE
    /\ client_windows_ = <<>>
    /\ initial_window_ = None
    /\ super_key_pressed_ = FALSE
    /\ super_press_start_ = 0
    /\ window_zero = 0
    /\ super_key_down = FALSE
    /\ windows = <<>>
    /\ wpid = [w \in Windows |-> 0]
    /\ wmapped = [w \in Windows |-> FALSE]
    /\ first_window = TRUE
    /\ enter_held = FALSE
    /\ enter_press_time = 0
    /\ ev = "init"
    /\ evw = None
    /\ closed = {}
    /\ sentcfg = NoCfg
    /\ fired = FALSE
    /\ asked = {}
    /\ homeEnds = 0
    /\ trigInHold = 0
    /\ keylog = NoKey
    /\ sock = <<>>
    /\ xqueue = <<>>
    /\ waited = NoWait
    /\ blocked = FALSE
    /\ unflushed = {}
    /\ errorDue = FALSE
    /\ AppLauncher

\* The event loop has just been entered: startup went through and the home
\* application was launched.
Init ==
    /\ WindowsInit
    /\ running = TRUE
    /\ launches = 1
    /\ pc = "loop"
    /\ exitCode = NoExit
    /\ argLen = 1
    /\ cfg = [kind |-> "missing", len |-> 0, nl |-> FALSE]
    /\ home_application = [src |-> "arg", len |-> 1]
    /\ otherWM = FALSE
    /\ envSet = (variant = "W")
    /\ hstate = "running"
    /\ hstatus = 0
    /\ henv = (variant = "W")
    /\ childOnDisplay = (variant = "X1")
    /\ forkFailed = FALSE
    /\ startFailed = "none"


(***************************************************************************)
(* Time and the clients' windows (all window managers).                    *)
(***************************************************************************)
\* Time passes.  The clock is read only while a hold is timed, and between
\* holds only its sub-second phase matters, so it is advanced only then.
Tick ==
    /\ now < MaxTime
    /\ physDown \/ super_key_pressed_ \/ enter_held \/ now < TicksPerSec
    /\ now' = now + 1
    /\ UNCHANGED <<loopVars, procVars, variant, launcherVars, running, serverVars, physDown, holdStart, homeAlive, homeOutlived,
                   x2Vars, x1Vars, wVars, logVars>>

\* The end of a home surface: counted, and the home process is gone unless
\* the handler launched it again.  A handler that launches it again does not
\* look whether the process that owned the surface has exited: it may run on.
HomeEnd(w, relaunch) ==
    IF w \in HomeSurfaces
    THEN /\ homeEnds' = homeEnds + 1
         /\ launches' = IF relaunch THEN launches + 1 ELSE launches
         /\ homeAlive' = IF relaunch THEN TRUE
                         ELSE IF wowner[w] = "home" THEN FALSE ELSE homeAlive
         /\ homeOutlived' \in IF relaunch /\ wowner[w] = "home"
                               THEN {homeOutlived, TRUE} ELSE {homeOutlived}
    ELSE UNCHANGED <<homeEnds, launches, homeAlive, homeOutlived>>

\* An X client creates a window (CreateNotify: no window manager handles it).
CreateWindowX(w, o) ==
    /\ variant \in XVariants
    /\ running
    /\ FreshWindow(w)
    /\ CanOwn(o)
    /\ wst' = [wst EXCEPT ![w] = "unmapped"]
    /\ wowner' = [wowner EXCEPT ![w] = o]
    /\ geom' = [geom EXCEPT ![w] = ClientGeom]
    /\ Log("create", w, {}, NoCfg, FALSE)
    /\ UNCHANGED <<loopVars, procVars, variant, launcherVars, running, top, focus, outputs, hasKeyboard, pend,
                   userVars, x2Vars, x1Vars, wVars, launches, homeEnds, trigInHold>>

(***************************************************************************)
(* part_002: class WindowManager with the hold-to-close hotkey.            *)
(***************************************************************************)
\* XSetInputFocus: BadMatch on a window that is not viewable (the error
\* handler of part_002/part_003 ignores it).
FocusIfViewable(cur, w, st) == IF st[w] = "mapped" THEN w ELSE cur

\* XRaiseWindow: BadWindow on a window that is gone.
RaiseIfExists(cur, w, st) == IF st[w] \in {"unmapped", "mapped"} THEN w ELSE cur

\* handle_map_request: the home designation after the MapRequest of w
InitialAfterMap(init, cw, w) == IF init = None /\ cw = <<>> THEN w ELSE init

handle_map_request(w) ==
    /\ initial_window_' = InitialAfterMap(initial_window_, client_windows_, w)
    /\ geom' = [geom EXCEPT ![w] = FullGeom]
    /\ wst' = [wst EXCEPT ![w] = "mapped"]
    /\ client_windows_' = Append(client_windows_, w)
    /\ top' = w
    /\ focus' = w

MapRequestX2(w) ==
    /\ variant = "X2"
    /\ running
    /\ wst[w] = "unmapped"
    /\ handle_map_request(w)
    /\ Log("map", w, {}, NoCfg, FALSE)
    /\ UNCHANGED <<loopVars, procVars, variant, launcherVars, running, wowner, outputs, hasKeyboard, pend, userVars,
                   super_key_pressed_, super_press_start_, x1Vars, wVars,
                   launches, homeEnds, trigInHold>>

\* The configure request of window w with value mask m, asking for ClientGeom.
ConfigureEvent(w, m) ==
    [window |-> w, value_mask |-> m, x |-> ClientGeom.x, y |-> ClientGeom.y,
     width |-> ClientGeom.width, height |-> ClientGeom.height]

\* A faulty handle_configure_request for comparison: the requested size is
\* passed on.
ConfigureChangesHonorSize(e) ==
    [x |-> 0, y |-> 0, width |-> e.width, height |-> e.height]

\* handle_configure_request: the XWindowChanges and the value mask handed to
\* XConfigureWindow for the request e
ConfigureChangesX2(e) ==
    [x |-> 0, y |-> 0, width |-> screen_width_, height |-> screen_height_]

ConfigureMaskX2(e) ==
    IF e.value_mask \cap {"stack"} # {} THEN e.value_mask
    ELSE e.value_mask \ {"stack"}

ConfigureRequestX2(w, m) ==
    /\ variant = "X2"
    /\ running
    /\ w \in Alive
    /\ LET e == ConfigureEvent(w, m)
           mask == ConfigureMaskX2(e)
           changes == ConfigureChangesX2(e)
       IN /\ geom' = [geom EXCEPT ![w] = ApplyConfigure(geom[w], mask, changes)]
          /\ top' = IF "stack" \in mask THEN w ELSE top
          /\ Log("configure", w, {}, [mask |-> mask, changes |-> changes, sent |-> TRUE], FALSE)
    /\ UNCHANGED <<loopVars, procVars, variant, launcherVars, running, wst, wowner, focus, outputs, hasKeyboard, pend,
                   userVars, x2Vars, x1Vars, wVars, launches, homeEnds, trigInHold>>

\* handle_window_destroyed on the state s = [cw, run, focus, top], the server's
\* windows being st: erase the first record of w; exit when none is left, else
\* focus and raise the last one.
handle_window_destroyed(s, w, st) ==
    IF ~s.run \/ w \notin Range(s.cw) THEN s
    ELSE LET l == RemoveFirst(s.cw, w)
         IN IF l = <<>> THEN [s EXCEPT !.cw = l, !.run = FALSE]
            ELSE [cw |-> l, run |-> TRUE,
                  focus |-> FocusIfViewable(s.focus, Back(l), st),
                  top |-> RaiseIfExists(s.top, Back(l), st)]

\* The server's focus and top once window w is unmapped or destroyed.
Without(cur, w) == IF cur = w THEN None ELSE cur

\* UnmapNotify (send_event False), then DestroyNotify, of a window that was
\* mapped; DestroyNotify alone of one that was not.
NotifiedX2(w, wasMapped, st) ==
    LET s0 == [cw |-> client_windows_, run |-> running,
               focus |-> Without(focus, w), top |-> Without(top, w)]
        s1 == IF wasMapped THEN handle_window_destroyed(s0, w, st) ELSE s0
    IN handle_window_destroyed(s1, w, st)

DestroyWindowX2(w) ==
    /\ variant = "X2"
    /\ running
    /\ w \in Alive
    /\ wst' = [wst EXCEPT ![w] = "gone"]
    /\ LET s == NotifiedX2(w, wst[w] = "mapped", wst')
       IN /\ client_windows_' = s.cw
          /\ running' = s.run
          /\ focus' = s.focus
          /\ top' = s.top
    /\ HomeEnd(w, FALSE)
    /\ Log("destroy", w, {}, NoCfg, FALSE)
    /\ UNCHANGED <<loopVars, procVars, variant, launcherVars, wowner, geom, outputs, hasKeyboard, pend, now, physDown,
                   holdStart, initial_window_, super_key_pressed_, super_press_start_,
                   x1Vars, wVars, trigInHold>>

\* The notifications of a window the window manager destroyed itself.
DestroyNotifyX2(w) ==
    /\ variant = "X2"
    /\ running
    /\ w \in pend
    /\ pend' = pend \ {w}
    /\ LET s == NotifiedX2(w, TRUE, wst)
       IN /\ client_windows_' = s.cw
          /\ running' = s.run
          /\ focus' = s.focus
          /\ top' = s.top
    /\ HomeEnd(w, FALSE)
    /\ Log("destroy", w, {}, NoCfg, FALSE)
    /\ UNCHANGED <<loopVars, procVars, variant, launcherVars, wst, wowner, geom, outputs, hasKeyboard, now, physDown,
                   holdStart, initial_window_, super_key_pressed_, super_press_start_,
                   x1Vars, wVars, trigInHold>>

\* A client unmaps its window: UnmapNotify, handle_window_unmapped.
UnmapWindowX2(w) ==
    /\ variant = "X2"
    /\ running
    /\ wst[w] = "mapped"
    /\ wst' = [wst EXCEPT ![w] = "unmapped"]
    /\ LET s == handle_window_destroyed(
                    [cw |-> client_windows_, run |-> running,
                     focus |-> Without(focus, w), top |-> Without(top, w)], w, wst')
       IN /\ client_windows_' = s.cw
          /\ running' = s.run
          /\ focus' = s.focus
          /\ top' = s.top
    /\ Log("unmap", w, {}, NoCfg, FALSE)
    /\ UNCHANGED <<loopVars, procVars, variant, launcherVars, wowner, geom, outputs, hasKeyboard, pend, userVars,
                   initial_window_, super_key_pressed_, super_press_start_,
                   x1Vars, wVars, launches, homeEnds, trigInHold>>

\* The user's key: a first press starts a hold, a repeat is a further keydown
\* event of the same hold.
UserPress(rep, trig) ==
    /\ physDown = rep
    /\ physDown' = TRUE
    /\ holdStart' = IF rep THEN holdStart ELSE now
    /\ trigInHold' = LET n == IF rep THEN trigInHold ELSE 0
                     IN IF ~trig THEN n ELSE IF n < 2 THEN n + 1 ELSE 2

\* The user lets the key go: the hold is over.
UserRelease ==
    /\ physDown
    /\ physDown' = FALSE
    /\ holdStart' = 0
    /\ trigInHold' = 0

\* (for comparison, a handle_key_press that takes the time of every keydown)
KeyPressStateRestart(pressed, start, t) == [pressed |-> TRUE, start |-> t]

\* handle_key_press: the hotkey state after a Super_L keydown at time t
KeyPressStateX2(pressed, start, t) ==
    IF ~pressed THEN [pressed |-> TRUE, start |-> t]
    ELSE [pressed |-> pressed, start |-> start]

KeyPressX2(rep) ==
    /\ variant = "X2"
    /\ running
    /\ UserPress(rep, FALSE)
    /\ LET s == KeyPressStateX2(super_key_pressed_, super_press_start_, now)
       IN /\ super_key_pressed_' = s.pressed
          /\ super_press_start_' = s.start
    /\ Log("keydown", None, {}, NoCfg, FALSE)
    /\ UNCHANGED <<loopVars, procVars, variant, launcherVars, running, serverVars, now, homeAlive, homeOutlived, client_windows_,
                   initial_window_, x1Vars, wVars, launches, homeEnds>>

\* handle_key_release
KeyReleaseX2 ==
    /\ variant = "X2"
    /\ running
    /\ physDown
    /\ UserRelease
    /\ super_key_pressed_' = FALSE
    /\ Log("keyup", None, {}, NoCfg, FALSE)
    /\ UNCHANGED <<loopVars, procVars, variant, launcherVars, running, serverVars, now, homeAlive, homeOutlived,
                   client_windows_, initial_window_, super_press_start_, x1Vars, wVars,
                   launches, homeEnds>>

\* The X keycodes of the keyboard: Super_L and a.
SuperKey == 133
XKeys == {SuperKey, 38}

\* XLookupKeysym(&e, 0)
XKeysym(keycode) ==
    IF keycode = SuperKey THEN "Super_L" ELSE IF keycode = 38 THEN "a" ELSE "NoSymbol"

\* The server's delivery of the key event e, the focus being on window f:
\* while the key grabbed by grab_super_key is down the keyboard is grabbed and
\* the event goes to the window manager only; otherwise the focus window
\* gets it.
ServerDelivers(grabbed, f, e) ==
    IF grabbed THEN [event |-> e, to |-> None, sent |-> NoKeyEvent, times |-> 0]
    ELSE [event |-> e, to |-> f, sent |-> e, times |-> 1]

\* A key other than Super_L: handle_key_press and handle_key_release, when
\* the event comes to the window manager, do nothing for it.
OtherKeyX2(k, st) ==
    /\ variant = "X2"
    /\ running
    /\ k \in XKeys
    /\ XKeysym(k) # "Super_L"
    /\ LogKey("key", None, {}, NoCfg, FALSE, ServerDelivers(physDown, focus, KeyEvent(k, st)))
    /\ UNCHANGED <<loopVars, procVars, variant, launcherVars, running, serverVars, userVars, x2Vars,
                   x1Vars, wVars, launches, homeEnds, trigInHold>>

\* close_all_except_initial: the windows that get WM_DELETE_WINDOW and
\* XDestroyWindow
WindowsToCloseX2(cw, init) ==
    IF init = None \/ cw = <<>> THEN {}
    ELSE { w \in Range(cw) : w # init }

close_all_except_initial ==
    LET toClose == WindowsToCloseX2(client_windows_, initial_window_)
        st == [w \in Windows |-> IF w \in toClose /\ w \in Alive THEN "gone" ELSE wst[w]]
        skip == initial_window_ = None \/ client_windows_ = <<>>
        f0 == IF focus \in toClose THEN None ELSE focus
        t0 == IF top \in toClose THEN None ELSE top
    IN /\ wst' = st
       /\ pend' = pend \cup (toClose \cap Alive)
       /\ closed' = toClose
       /\ top' = IF skip THEN top ELSE RaiseIfExists(t0, initial_window_, st)
       /\ focus' = IF skip THEN focus ELSE FocusIfViewable(f0, initial_window_, st)

\* event_loop: select() timed out while the hotkey is pressed
HoldElapsedX2(start, t) == ElapsedMs(start, t) >= HoldMs

PollX2 ==
    /\ variant = "X2"
    /\ running
    /\ super_key_pressed_
    /\ IF HoldElapsedX2(super_press_start_, now)
       THEN /\ close_all_except_initial
            /\ super_key_pressed_' = FALSE
            /\ fired' = TRUE
            /\ CountTrigger
       ELSE /\ closed' = {}
            /\ fired' = FALSE
            /\ UNCHANGED <<wst, pend, top, focus, super_key_pressed_, trigInHold>>
    /\ ev' = "poll"
    /\ evw' = None
    /\ asked' = AskedAfter("poll", None, closed', fired')
    /\ sentcfg' = NoCfg
    /\ keylog' = NoKey
    /\ UNCHANGED <<loopVars, procVars, variant, launcherVars, running, wowner, geom, outputs, hasKeyboard, userVars,
                   client_windows_, initial_window_, super_press_start_, x1Vars, wVars,
                   launches, homeEnds>>

(***************************************************************************)
(* part_003: class WindowManager without hotkey.                           *)
(***************************************************************************)
MapRequestX3(w) ==
    /\ variant = "X3"
    /\ running
    /\ wst[w] = "unmapped"
    /\ geom' = [geom EXCEPT ![w] = FullGeom]
    /\ wst' = [wst EXCEPT ![w] = "mapped"]
    /\ top' = w
    /\ focus' = w
    /\ client_windows_' = Append(client_windows_, w)
    /\ Log("map", w, {}, NoCfg, FALSE)
    /\ UNCHANGED <<loopVars, procVars, variant, launcherVars, running, wowner, outputs, hasKeyboard, pend, userVars,
                   initial_window_, super_key_pressed_, super_press_start_, x1Vars,
                   wVars, launches, homeEnds, trigInHold>>

\* handle_configure_request of part_003
ConfigureChangesX3(e) ==
    [x |-> 0, y |-> 0, width |-> screen_width_, height |-> screen_height_]

ConfigureMaskX3(e) == e.value_mask

ConfigureRequestX3(w, m) ==
    /\ variant = "X3"
    /\ running
    /\ w \in Alive
    /\ LET e == ConfigureEvent(w, m)
           mask == ConfigureMaskX3(e)
           changes == ConfigureChangesX3(e)
       IN /\ geom' = [geom EXCEPT ![w] = ApplyConfigure(geom[w], mask, changes)]
          /\ top' = IF "stack" \in mask THEN w ELSE top
          /\ Log("configure", w, {}, [mask |-> mask, changes |-> changes, sent |-> TRUE], FALSE)
    /\ UNCHANGED <<loopVars, procVars, variant, launcherVars, running, wst, wowner, focus, outputs, hasKeyboard, pend,
                   userVars, x2Vars, x1Vars, wVars, launches, homeEnds, trigInHold>>

\* handle_window_closed on the state s = [cw, run, focus, top]: as
\* handle_window_destroyed of part_002, without the raise.
handle_window_closed(s, w, st) ==
    IF ~s.run \/ w \notin Range(s.cw) THEN s
    ELSE LET l == RemoveFirst(s.cw, w)
         IN IF l = <<>> THEN [s EXCEPT !.cw = l, !.run = FALSE]
            ELSE [s EXCEPT !.cw = l, !.focus = FocusIfViewable(s.focus, Back(l), st)]

\* DestroyNotify, after UnmapNotify when the window was mapped.
DestroyWindowX3(w) ==
    /\ variant = "X3"
    /\ running
    /\ w \in Alive
    /\ wst' = [wst EXCEPT ![w] = "gone"]
    /\ LET s0 == [cw |-> client_windows_, run |-> running,
                  focus |-> Without(focus, w), top |-> Without(top, w)]
           s1 == IF wst[w] = "mapped" THEN handle_window_closed(s0, w, wst') ELSE s0
           s == handle_window_closed(s1, w, wst')
       IN /\ client_windows_' = s.cw
          /\ running' = s.run
          /\ focus' = s.focus
          /\ top' = s.top
    /\ Log("destroy", w, {}, NoCfg, FALSE)
    /\ UNCHANGED <<loopVars, procVars, variant, launcherVars, wowner, geom, outputs, hasKeyboard, pend, userVars,
                   initial_window_, super_key_pressed_, super_press_start_, x1Vars,
                   wVars, launches, homeEnds, trigInHold>>

UnmapWindowX3(w) ==
    /\ variant = "X3"
    /\ running
    /\ wst[w] = "mapped"
    /\ wst' = [wst EXCEPT ![w] = "unmapped"]
    /\ LET s == handle_window_closed(
                    [cw |-> client_windows_, run |-> running,
                     focus |-> Without(focus, w), top |-> Without(top, w)], w, wst')
       IN /\ client_windows_' = s.cw
          /\ running' = s.run
          /\ focus' = s.focus
          /\ top' = s.top
    /\ Log("unmap", w, {}, NoCfg, FALSE)
    /\ UNCHANGED <<loopVars, procVars, variant, launcherVars, wowner, geom, outputs, hasKeyboard, pend, userVars,
                   initial_window_, super_key_pressed_, super_press_start_, x1Vars,
                   wVars, launches, homeEnds, trigInHold>>

(***************************************************************************)
(* part_001: main, with window_zero and the press-to-close hotkey.  No X   *)
(* error handler is installed: an X error ends the process (Xlib's default *)
(* handler).                                                               *)
(***************************************************************************)
\* MapRequest: window_zero after the MapRequest of w
WindowZeroAfterMap(wz, w) == IF wz = 0 THEN w ELSE wz

MapRequestX1(w) ==
    /\ variant = "X1"
    /\ running
    /\ wst[w] = "unmapped"
    /\ window_zero' = WindowZeroAfterMap(window_zero, w)
    /\ geom' = [geom EXCEPT ![w] = FullGeom]
    /\ wst' = [wst EXCEPT ![w] = "mapped"]
    /\ top' = w
    /\ focus' = w
    /\ Log("map", w, {}, NoCfg, FALSE)
    /\ UNCHANGED <<loopVars, procVars, variant, launcherVars, running, wowner, outputs, hasKeyboard, pend, userVars,
                   x2Vars, super_key_down, wVars, launches, homeEnds, trigInHold>>

\* ConfigureRequest: XWindowChanges with x, y, width, height set; border_width,
\* sibling and stack_mode are not initialised.
ConfigureChangesX1(e) ==
    [x |-> 0, y |-> 0, width |-> screen_width_, height |-> screen_height_]

\* What the server makes of the uninitialised stack_mode and sibling.
StackOutcomes == {"raise", "keep", "error"}

ConfigureRequestX1(w, m, outcome) ==
    /\ variant = "X1"
    /\ running
    /\ w \in Alive
    /\ ("stack" \notin m) => outcome = "keep"
    /\ LET e == ConfigureEvent(w, m)
           changes == ConfigureChangesX1(e)
       IN /\ geom' = IF outcome = "error" THEN geom
                     ELSE [geom EXCEPT ![w] = ApplyConfigure(geom[w], e.value_mask, changes)]
          /\ top' = IF outcome = "raise" THEN w ELSE top
          /\ running' = (outcome # "error")
          /\ Log("configure", w, {},
                 [mask |-> e.value_mask, changes |-> changes, sent |-> TRUE], FALSE)
    /\ UNCHANGED <<loopVars, procVars, variant, launcherVars, wst, wowner, focus, outputs, hasKeyboard, pend,
                   userVars, x2Vars, x1Vars, wVars, launches, homeEnds, trigInHold>>

\* close_all_other_windows: the windows that get WM_DELETE_WINDOW
WindowsToCloseX1(children, wz) == { c \in children : c # wz }

\* KeyPress of the grabbed Super_L
KeyPressX1(rep) ==
    /\ variant = "X1"
    /\ running
    /\ UserPress(rep, ~super_key_down)
    /\ IF ~super_key_down
       THEN /\ super_key_down' = TRUE
            /\ closed' = WindowsToCloseX1(Alive, window_zero)
            /\ fired' = TRUE
            /\ top' = IF window_zero # 0 THEN window_zero ELSE top
            \* XSetInputFocus: BadMatch when window_zero is not viewable
            /\ focus' = IF window_zero # 0 /\ wst[window_zero] = "mapped"
                        THEN window_zero ELSE focus
            /\ running' = (window_zero # 0 => wst[window_zero] = "mapped")
       ELSE /\ closed' = {}
            /\ fired' = FALSE
            /\ UNCHANGED <<super_key_down, top, focus, running>>
    /\ ev' = "keydown"
    /\ evw' = None
    /\ asked' = AskedAfter("keydown", None, closed', fired')
    /\ sentcfg' = NoCfg
    /\ keylog' = NoKey
    /\ UNCHANGED <<loopVars, procVars, variant, launcherVars, wst, wowner, geom, outputs, hasKeyboard, pend, now,
                   homeAlive, homeOutlived, x2Vars, window_zero, wVars, launches, homeEnds>>

KeyReleaseX1 ==
    /\ variant = "X1"
    /\ running
    /\ UserRelease
    /\ super_key_down' = FALSE
    /\ Log("keyup", None, {}, NoCfg, FALSE)
    /\ UNCHANGED <<loopVars, procVars, variant, launcherVars, running, serverVars, now, homeAlive, homeOutlived, x2Vars, window_zero,
                   wVars, launches, homeEnds>>

\* DestroyNotify: window_zero is reset and the home application launched
\* again when the window is window_zero.
DestroyWindowX1(w) ==
    /\ variant = "X1"
    /\ running
    /\ w \in Alive
    /\ wst' = [wst EXCEPT ![w] = "gone"]
    /\ focus' = Without(focus, w)
    /\ top' = Without(top, w)
    /\ window_zero' = IF w = window_zero THEN 0 ELSE window_zero
    /\ HomeEnd(w, w = window_zero)
    /\ Log("destroy", w, {}, NoCfg, FALSE)
    /\ UNCHANGED <<loopVars, procVars, variant, launcherVars, running, wowner, geom, outputs, hasKeyboard, pend, now,
                   physDown, holdStart, x2Vars, super_key_down, wVars, trigInHold>>

\* UnmapNotify: no case of the switch handles it.
UnmapWindowX1(w) ==
    /\ variant = "X1"
    /\ running
    /\ wst[w] = "mapped"
    /\ wst' = [wst EXCEPT ![w] = "unmapped"]
    /\ focus' = Without(focus, w)
    /\ top' = Without(top, w)
    /\ Log("unmap", w, {}, NoCfg, FALSE)
    /\ UNCHANGED <<loopVars, procVars, variant, launcherVars, running, wowner, geom, outputs, hasKeyboard, pend,
                   userVars, x2Vars, x1Vars, wVars, launches, homeEnds, trigInHold>>

(***************************************************************************)
(* dendy_wm.c: the wlroots compositor.                                     *)
(***************************************************************************)
\* A faulty new_xdg_surface for comparison: every new window is given the
\* home pid.
NewWindowPidEvery(first) == home_pid

\* new_xdg_surface: KioskWindow.pid of the new window
NewWindowPid(first) == IF first THEN home_pid ELSE 0

\* new_xdg_surface: the toplevel is set fullscreen when an output exists
NewWindowGeom(nOutputs) == IF nOutputs > 0 THEN FullGeom ELSE ClientGeom

new_xdg_surface(w, o) ==
    /\ variant = "W"
    /\ FreshWindow(w)
    /\ CanOwn(o)
    /\ wst' = [wst EXCEPT ![w] = "unmapped"]
    /\ wowner' = [wowner EXCEPT ![w] = o]
    /\ wmapped' = [wmapped EXCEPT ![w] = FALSE]
    /\ wpid' = [wpid EXCEPT ![w] = NewWindowPid(first_window)]
    /\ first_window' = FALSE
    /\ geom' = [geom EXCEPT ![w] = NewWindowGeom(outputs)]
    /\ windows' = <<w>> \o windows
    /\ Log("create", w, {}, NoCfg, FALSE)
    /\ UNCHANGED <<loopVars, procVars, variant, launcherVars, running, top, focus, outputs, hasKeyboard, pend, userVars,
                   x2Vars, x1Vars, enter_held, enter_press_time, launches, homeEnds,
                   trigInHold>>

\* window_map: keyboard focus goes to the surface when the seat has a keyboard
FocusAfterMap(cur, w, kbd) == IF kbd THEN w ELSE cur

window_map(w) ==
    /\ variant = "W"
    /\ wst[w] = "unmapped"
    /\ wst' = [wst EXCEPT ![w] = "mapped"]
    /\ wmapped' = [wmapped EXCEPT ![w] = TRUE]
    /\ top' = w
    /\ focus' = FocusAfterMap(focus, w, hasKeyboard)
    /\ Log("map", w, {}, NoCfg, FALSE)
    /\ UNCHANGED <<loopVars, procVars, variant, launcherVars, running, wowner, geom, outputs, hasKeyboard, pend, userVars,
                   x2Vars, x1Vars, windows, wpid, first_window, enter_held,
                   enter_press_time, launches, homeEnds, trigInHold>>

window_unmap(w) ==
    /\ variant = "W"
    /\ wst[w] = "mapped"
    /\ wst' = [wst EXCEPT ![w] = "unmapped"]
    /\ wmapped' = [wmapped EXCEPT ![w] = FALSE]
    /\ top' = Without(top, w)
    /\ Log("unmap", w, {}, NoCfg, FALSE)
    /\ UNCHANGED <<loopVars, procVars, variant, launcherVars, running, wowner, geom, focus, outputs, hasKeyboard, pend,
                   userVars, x2Vars, x1Vars, windows, wpid, first_window, enter_held,
                   enter_press_time, launches, homeEnds, trigInHold>>

\* window_destroy (after window_unmap when the surface was mapped); the seat
\* drops the focus of a destroyed surface.
window_destroy(w) ==
    /\ variant = "W"
    /\ w \in Alive
    /\ wst' = [wst EXCEPT ![w] = "gone"]
    /\ wmapped' = [wmapped EXCEPT ![w] = FALSE]
    /\ windows' = RemoveFirst(windows, w)
    /\ top' = Without(top, w)
    /\ focus' = Without(focus, w)
    /\ HomeEnd(w, FALSE)
    /\ Log("destroy", w, {}, NoCfg, FALSE)
    /\ UNCHANGED <<loopVars, procVars, variant, launcherVars, running, wowner, geom, outputs, hasKeyboard, pend, now,
                   physDown, holdStart, x2Vars, x1Vars, wpid, first_window, enter_held,
                   enter_press_time, trigInHold>>

\* A request of the client on its toplevel (fullscreen, maximize, ...): main
\* registers no listener for it, nothing is answered.
toplevel_request(w) ==
    /\ variant = "W"
    /\ w \in Alive
    /\ Log("configure", w, {}, NoCfg, FALSE)
    /\ UNCHANGED <<loopVars, procVars, variant, launcherVars, running, serverVars, userVars, x2Vars, x1Vars, wVars,
                   launches, homeEnds, trigInHold>>

new_output ==
    /\ variant = "W"
    /\ outputs < MaxOutputs
    /\ outputs' = outputs + 1
    /\ Log("output", None, {}, NoCfg, FALSE)
    /\ UNCHANGED <<loopVars, procVars, variant, launcherVars, running, wst, wowner, geom, top, focus, hasKeyboard, pend,
                   userVars, x2Vars, x1Vars, wVars, launches, homeEnds, trigInHold>>

output_destroy ==
    /\ variant = "W"
    /\ outputs > 0
    /\ outputs' = outputs - 1
    /\ Log("output", None, {}, NoCfg, FALSE)
    /\ UNCHANGED <<loopVars, procVars, variant, launcherVars, running, wst, wowner, geom, top, focus, hasKeyboard, pend,
                   userVars, x2Vars, x1Vars, wVars, launches, homeEnds, trigInHold>>

new_input ==
    /\ variant = "W"
    /\ hasKeyboard' = TRUE
    /\ Log("input", None, {}, NoCfg, FALSE)
    /\ UNCHANGED <<loopVars, procVars, variant, launcherVars, running, wst, wowner, geom, top, focus, outputs, pend,
                   userVars, x2Vars, x1Vars, wVars, launches, homeEnds, trigInHold>>

\* The evdev keycodes of the keyboard: KEY_ENTER and KEY_A.
ReturnKey == 28
EvdevKeys == {ReturnKey, 30}

\* xkb_state_key_get_syms: the keysyms of an xkb keycode
XkbSyms(code) ==
    IF code = 36 THEN {"Return"} ELSE IF code = 38 THEN {"a"} ELSE {}

\* keyboard_handle_key: some keysym of the key is Return or KP_Enter; the
\* keycode looked up is event->keycode + 8
IsEnter(keycode) == XkbSyms(keycode + 8) \cap {"Return", "KP_Enter"} # {}

\* wlr_seat_keyboard_notify_key(seat, time, event->keycode, event->state): the
\* surface with keyboard focus gets the key
NotifyKey(to, e) ==
    [event |-> e, to |-> to, sent |-> [keycode |-> e.keycode, state |-> e.state],
     times |-> 1]

\* (for comparison, a handler that passes the key on whether handled or not)
ForwardKeyAlways(handled, to, e) == NotifyKey(to, e)

\* keyboard_handle_key: if (!handled) the key is passed on to the seat, once
ForwardKey(handled, to, e) == IF handled THEN NoKey ELSE NotifyKey(to, e)

\* keyboard_handle_key, a key that is neither Return nor KP_Enter
keyboard_handle_key_other(k, st) ==
    /\ variant = "W"
    /\ hasKeyboard
    /\ ~IsEnter(k)
    /\ LogKey("key", None, {}, NoCfg, FALSE, ForwardKey(FALSE, focus, KeyEvent(k, st)))
    /\ UNCHANGED <<loopVars, procVars, variant, launcherVars, running, serverVars, userVars, x2Vars,
                   x1Vars, wVars, launches, homeEnds, trigInHold>>

\* keyboard_handle_key, Return or KP_Enter pressed: the press time kept
EnterPressTime(held, press, t) == IF ~held THEN t ELSE press

\* keyboard_handle_key: seconds >= 2
HoldElapsedW(press, t) == TvSec(t) - TvSec(press) >= HoldSec

\* keyboard_handle_key: the windows that get a close
WindowsToCloseW(ws, pid) == { w \in Range(ws) : pid[w] # home_pid }

keyboard_handle_key_pressed(rep) ==
    /\ variant = "W"
    /\ hasKeyboard
    /\ LET press == EnterPressTime(enter_held, enter_press_time, now)
           trig == HoldElapsedW(press, now)
       IN /\ UserPress(rep, trig)
          /\ enter_held' = TRUE
          /\ enter_press_time' = press
          /\ LogKey("keydown", None,
                    IF trig THEN WindowsToCloseW(windows, wpid) ELSE {}, NoCfg, trig,
                    ForwardKey(trig, focus, KeyEvent(ReturnKey, "pressed")))
    /\ UNCHANGED <<loopVars, procVars, variant, launcherVars, running, serverVars, now, homeAlive, homeOutlived, x2Vars, x1Vars,
                   windows, wpid, wmapped, first_window, launches, homeEnds>>

keyboard_handle_key_released ==
    /\ variant = "W"
    /\ hasKeyboard
    /\ UserRelease
    /\ enter_held' = FALSE
    /\ LogKey("keyup", None, {}, NoCfg, FALSE,
              ForwardKey(FALSE, focus, KeyEvent(ReturnKey, "released")))
    /\ UNCHANGED <<loopVars, procVars, variant, launcherVars, running, serverVars, now, homeAlive, homeOutlived, x2Vars, x1Vars,
                   windows, wpid, wmapped, first_window, enter_press_time, launches,
                   homeEnds>>

(***************************************************************************)
(* The specification.                                                      *)
(***************************************************************************)
Next ==
    \/ Tick
    \/ \E w \in Windows, o \in Owners : CreateWindowX(w, o)
    \/ \E w \in Windows : MapRequestX2(w)
    \/ \E w \in Windows, m \in ValueMasks : ConfigureRequestX2(w, m)
    \/ \E w \in Windows : DestroyWindowX2(w)
    \/ \E w \in Windows : DestroyNotifyX2(w)
    \/ \E w \in Windows : UnmapWindowX2(w)
    \/ \E rep \in BOOLEAN : KeyPressX2(rep)
    \/ KeyReleaseX2
    \/ \E k \in XKeys, st \in KeyStates : OtherKeyX2(k, st)
    \/ PollX2
    \/ \E w \in Windows : MapRequestX3(w)
    \/ \E w \in Windows, m \in ValueMasks : ConfigureRequestX3(w, m)
    \/ \E w \in Windows : DestroyWindowX3(w)
    \/ \E w \in Windows : UnmapWindowX3(w)
    \/ \E w \in Windows : MapRequestX1(w)
    \/ \E w \in Windows, m \in ValueMasks, oc \in StackOutcomes : ConfigureRequestX1(w, m, oc)
    \/ \E rep \in BOOLEAN : KeyPressX1(rep)
    \/ KeyReleaseX1
    \/ \E w \in Windows : DestroyWindowX1(w)
    \/ \E w \in Windows : UnmapWindowX1(w)
    \/ \E w \in Windows, o \in Owners : new_xdg_surface(w, o)
    \/ \E w \in Windows : window_map(w)
    \/ \E w \in Windows : window_unmap(w)
    \/ \E w \in Windows : window_destroy(w)
    \/ \E w \in Windows : toplevel_request(w)
    \/ new_output
    \/ output_destroy
    \/ new_input
    \/ \E rep \in BOOLEAN : keyboard_handle_key_pressed(rep)
    \/ keyboard_handle_key_released
    \/ \E k \in EvdevKeys, st \in KeyStates : keyboard_handle_key_other(k, st)

Spec == Init /\ [][Next]_vars

\* Time passes, and the event loop of part_002 takes its select() timeout
\* branch while the hotkey is pressed and no event is waiting.
FairSpec == Spec /\ WF_vars(Tick) /\ WF_vars(PollX2)

(***************************************************************************)
(* part_002's event_loop, one iteration at a time: what the server sends   *)
(* waits on the connection (sock) until Xlib reads it; Xlib queues the     *)
(* events (xqueue), hands the errors to x_error_handler, and XNextEvent    *)
(* gives the head of the queue to the handlers above.  The requests of the *)
(* handlers wait in Xlib's output buffer until Xlib sends them.            *)
(***************************************************************************)
XEvent(t, w) == [type |-> t, window |-> w, value_mask |-> {}]

\* The X error the server sends back for a request on a window that is gone.
XError == XEvent("Error", None)

\* The events that have arrived and are not dispatched yet.
Undispatched == Len(sock) + Len(xqueue)

\* The one value mask of the configure requests in this specification.
LoopMask == {"x", "y", "width", "height"}

\* An event of type t is waiting for window w, read or unread.
InFlight(t, w) ==
    \E e \in Range(sock) \cup Range(xqueue) : e.type = t /\ e.window = w

\* (for comparison, an error handling that gives up what was read with the
\* error)
RECURSIVE EventsUpToError(_)
EventsUpToError(s) ==
    IF s = <<>> THEN <<>>
    ELSE IF Head(s).type = "Error" THEN <<>>
    ELSE <<Head(s)>> \o EventsUpToError(Tail(s))

\* Reading the connection: the events are queued, the errors go to
\* x_error_handler, which returns.
RECURSIVE Events(_)
Events(s) ==
    IF s = <<>> THEN <<>>
    ELSE IF Head(s).type = "Error" THEN Events(Tail(s))
    ELSE <<Head(s)>> \o Events(Tail(s))

\* The requests of the output buffer reach the server: one that names a
\* window that is gone by then fails.
FlushFails(buffer) == \E w \in buffer : wst[w] = "gone"

\* Time passes, a second at a time, while a hold is timed.
SecondPasses ==
    /\ now + TicksPerSec <= MaxTime
    /\ physDown \/ super_key_pressed_
    /\ now' = now + TicksPerSec
    /\ UNCHANGED <<loopVars, procVars, variant, launcherVars, running, serverVars, physDown, holdStart,
                   homeAlive, homeOutlived, x2Vars, x1Vars, wVars, logVars>>

\* The hotkey goes down: KeyPress of the grabbed Super_L is sent.
KeyPressArrives ==
    /\ variant = "X2"
    /\ running
    /\ Undispatched < MaxSock
    /\ UserPress(FALSE, FALSE)
    /\ sock' = Append(sock, XEvent("KeyPress", None))
    /\ UNCHANGED <<procVars, variant, launcherVars, running, serverVars, now, homeAlive, homeOutlived, x2Vars, x1Vars,
                   wVars, ev, evw, closed, sentcfg, fired, asked, keylog, launches, homeEnds,
                   xqueue, waited, blocked, unflushed, errorDue>>

\* The hotkey goes up.
KeyReleaseArrives ==
    /\ variant = "X2"
    /\ running
    /\ Undispatched < MaxSock
    /\ UserRelease
    /\ sock' = Append(sock, XEvent("KeyRelease", None))
    /\ UNCHANGED <<procVars, variant, launcherVars, running, serverVars, now, homeAlive, homeOutlived, x2Vars, x1Vars,
                   wVars, ev, evw, closed, sentcfg, fired, asked, keylog, launches, homeEnds,
                   xqueue, waited, blocked, unflushed, errorDue>>

\* A client maps its window: the server redirects the request, and does so
\* again when the client asks again before the window is mapped.
MapRequestArrives(w) ==
    /\ variant = "X2"
    /\ running
    /\ Undispatched < MaxSock
    /\ wst[w] = "unmapped"
    /\ sock' = Append(sock, XEvent("MapRequest", w))
    /\ UNCHANGED <<procVars, variant, launcherVars, running, serverVars, userVars, x2Vars, x1Vars, wVars,
                   logVars, xqueue, waited, blocked, unflushed, errorDue>>

\* A client asks for a geometry: the server redirects the request.
ConfigureRequestArrives(w) ==
    /\ variant = "X2"
    /\ running
    /\ Undispatched < MaxSock
    /\ w \in Alive
    /\ ~InFlight("ConfigureRequest", w)
    /\ sock' = Append(sock, [type |-> "ConfigureRequest", window |-> w,
                             value_mask |-> LoopMask])
    /\ UNCHANGED <<procVars, variant, launcherVars, running, serverVars, userVars, x2Vars, x1Vars, wVars,
                   logVars, xqueue, waited, blocked, unflushed, errorDue>>

\* A client destroys its window (one that has no map request under way).
ClientDestroys(w) ==
    /\ variant = "X2"
    /\ running
    /\ Undispatched < MaxSock
    /\ w \in Alive
    /\ ~InFlight("MapRequest", w)
    /\ wst' = [wst EXCEPT ![w] = "gone"]
    /\ focus' = Without(focus, w)
    /\ top' = Without(top, w)
    /\ sock' = Append(sock, XEvent("DestroyNotify", w))
    /\ UNCHANGED <<procVars, variant, launcherVars, running, wowner, geom, outputs, hasKeyboard, pend,
                   userVars, x2Vars, x1Vars, wVars, logVars, xqueue, waited, blocked,
                   unflushed, errorDue>>

\* The server reports a window the window manager destroyed.
DestroyNotifyArrives(w) ==
    /\ variant = "X2"
    /\ running
    /\ Undispatched < MaxSock
    /\ w \in pend
    /\ pend' = pend \ {w}
    /\ sock' = Append(sock, XEvent("DestroyNotify", w))
    /\ UNCHANGED <<procVars, variant, launcherVars, running, wst, wowner, geom, top, focus, outputs,
                   hasKeyboard, userVars, x2Vars, x1Vars, wVars, logVars, xqueue, waited,
                   blocked, unflushed, errorDue>>

\* The server's error for a failed request arrives.
ErrorArrives ==
    /\ variant = "X2"
    /\ running
    /\ errorDue
    /\ errorDue' = FALSE
    /\ sock' = Append(sock, XError)
    /\ UNCHANGED <<procVars, variant, launcherVars, running, serverVars, userVars, x2Vars, x1Vars, wVars,
                   logVars, xqueue, waited, blocked, unflushed>>

\* event_loop: how an iteration waits for the next event
WaitMode(pressed) == IF pressed THEN "select" ELSE "XNextEvent"

\* What the iteration records of its wait.
Waited(how, timedOut) ==
    [how |-> how, pressed |-> super_key_pressed_, queued |-> Len(xqueue),
     timedOut |-> timedOut]

\* close_all_except_initial: windows_to_close, in the order of the loop
RECURSIVE WindowsToCloseSeq(_, _)
WindowsToCloseSeq(cw, init) ==
    IF cw = <<>> THEN <<>>
    ELSE IF Head(cw) = init THEN WindowsToCloseSeq(Tail(cw), init)
    ELSE <<Head(cw)>> \o WindowsToCloseSeq(Tail(cw), init)

\* close_all_except_initial and the output buffer.  XInternAtom waits for its
\* reply, so the error of every request made before it is handled inside it;
\* XFlush sends what the last turn of the loop left in the buffer, and the
\* requests of that turn fail when its window is gone or was destroyed in an
\* earlier turn;
\* XRaiseWindow and XSetInputFocus of the initial window stay in the buffer.
CloseAllOutput ==
    LET toClose == WindowsToCloseSeq(client_windows_, initial_window_)
        skip == initial_window_ = None \/ client_windows_ = <<>>
    IN IF skip THEN [unflushed |-> unflushed, errorDue |-> errorDue]
       ELSE [unflushed |-> {initial_window_},
             errorDue |-> IF toClose = <<>> THEN errorDue \/ FlushFails(unflushed)
                          ELSE \/ wst[Back(toClose)] = "gone"
                               \/ \E i \in 1..(Len(toClose) - 1) :
                                      toClose[i] = Back(toClose)]

\* select() on the connection returned 0: nothing arrived within 50 ms.  The
\* hold is checked and the loop continues.
SelectTimeout ==
    /\ variant = "X2"
    /\ running
    /\ ~blocked
    /\ WaitMode(super_key_pressed_) = "select"
    /\ sock = <<>>
    /\ IF HoldElapsedX2(super_press_start_, now)
       THEN /\ close_all_except_initial
            /\ super_key_pressed_' = FALSE
            /\ fired' = TRUE
            /\ CountTrigger
            /\ unflushed' = CloseAllOutput.unflushed
            /\ errorDue' = CloseAllOutput.errorDue
       ELSE /\ closed' = {}
            /\ fired' = FALSE
            /\ UNCHANGED <<wst, pend, top, focus, super_key_pressed_, trigInHold,
                           unflushed, errorDue>>
    /\ ev' = "poll"
    /\ evw' = None
    /\ asked' = AskedAfter("poll", None, closed', fired')
    /\ sentcfg' = NoCfg
    /\ keylog' = NoKey
    /\ waited' = Waited("select", TRUE)
    /\ UNCHANGED <<procVars, variant, launcherVars, running, wowner, geom, outputs, hasKeyboard, userVars,
                   client_windows_, initial_window_, super_press_start_, x1Vars, wVars,
                   launches, homeEnds, sock, xqueue, blocked>>

\* XNextEvent: the head of Xlib's queue; when the queue is empty, Xlib sends
\* its output buffer and reads everything that has arrived.
QueueAtNextEvent == IF xqueue = <<>> THEN Events(sock) ELSE xqueue
SockAtNextEvent == IF xqueue = <<>> THEN <<>> ELSE sock
UnflushedAtNextEvent == IF xqueue = <<>> THEN {} ELSE unflushed
ErrorDueAtNextEvent ==
    IF xqueue = <<>> THEN errorDue \/ FlushFails(unflushed) ELSE errorDue

DispatchKeyPress ==
    /\ LET s == KeyPressStateX2(super_key_pressed_, super_press_start_, now)
       IN /\ super_key_pressed_' = s.pressed
          /\ super_press_start_' = s.start
    /\ Log("keydown", None, {}, NoCfg, FALSE)
    /\ xqueue' = Tail(QueueAtNextEvent)
    /\ sock' = SockAtNextEvent
    /\ unflushed' = UnflushedAtNextEvent
    /\ errorDue' = ErrorDueAtNextEvent
    /\ UNCHANGED <<running, serverVars, homeAlive, homeOutlived, client_windows_, initial_window_,
                   launches, homeEnds>>

DispatchKeyRelease ==
    /\ super_key_pressed_' = FALSE
    /\ Log("keyup", None, {}, NoCfg, FALSE)
    /\ xqueue' = Tail(QueueAtNextEvent)
    /\ sock' = SockAtNextEvent
    /\ unflushed' = UnflushedAtNextEvent
    /\ errorDue' = ErrorDueAtNextEvent
    /\ UNCHANGED <<running, serverVars, homeAlive, homeOutlived, client_windows_, initial_window_,
                   super_press_start_, launches, homeEnds>>

\* handle_map_request ends with XSync: the output buffer is sent, and all that
\* arrives up to the reply is read, the errors of every earlier request with
\* it.
DispatchMapRequest(w) ==
    /\ handle_map_request(w)
    /\ Log("map", w, {}, NoCfg, FALSE)
    /\ xqueue' = Tail(QueueAtNextEvent) \o Events(SockAtNextEvent)
    /\ sock' = <<>>
    /\ unflushed' = {}
    /\ errorDue' = FALSE
    /\ UNCHANGED <<running, wowner, outputs, hasKeyboard, pend, homeAlive, homeOutlived,
                   super_key_pressed_, super_press_start_, launches, homeEnds>>

\* handle_configure_request: XConfigureWindow goes to the output buffer.
DispatchConfigureRequest(e) ==
    LET w == e.window
        r == [window |-> w, value_mask |-> e.value_mask, x |-> ClientGeom.x,
              y |-> ClientGeom.y, width |-> ClientGeom.width, height |-> ClientGeom.height]
        mask == ConfigureMaskX2(r)
        changes == ConfigureChangesX2(r)
    IN /\ geom' = IF w \in Alive
                  THEN [geom EXCEPT ![w] = ApplyConfigure(geom[w], mask, changes)]
                  ELSE geom
       /\ top' = IF w \in Alive /\ "stack" \in mask THEN w ELSE top
       /\ Log("configure", w, {}, [mask |-> mask, changes |-> changes, sent |-> TRUE], FALSE)
       /\ xqueue' = Tail(QueueAtNextEvent)
       /\ sock' = SockAtNextEvent
       /\ unflushed' = UnflushedAtNextEvent \cup {w}
       /\ errorDue' = ErrorDueAtNextEvent
       /\ UNCHANGED <<running, wst, wowner, focus, outputs, hasKeyboard, pend, homeAlive, homeOutlived,
                      x2Vars, launches, homeEnds>>

\* handle_window_destroyed: XSetInputFocus and XRaiseWindow of the last window
\* left go to the output buffer.
DispatchDestroyNotify(w) ==
    /\ LET s == NotifiedX2(w, TRUE, wst)
           asks == IF w \in Range(client_windows_) /\ s.cw # <<>>
                   THEN {Back(s.cw)} ELSE {}
       IN /\ client_windows_' = s.cw
          /\ running' = s.run
          /\ focus' = s.focus
          /\ top' = s.top
          /\ unflushed' = UnflushedAtNextEvent \cup asks
    /\ errorDue' = ErrorDueAtNextEvent
    /\ sock' = SockAtNextEvent
    /\ HomeEnd(w, FALSE)
    /\ Log("destroy", w, {}, NoCfg, FALSE)
    /\ xqueue' = Tail(QueueAtNextEvent)
    /\ UNCHANGED <<wst, wowner, geom, outputs, hasKeyboard, pend, initial_window_,
                   super_key_pressed_, super_press_start_>>

\* The iteration reaches XNextEvent (select() reported data, or the hotkey is
\* not pressed) or is inside it: the event at the head is dispatched; when
\* only errors had arrived, XNextEvent handles them and goes on waiting.
DispatchNext ==
    /\ variant = "X2"
    /\ running
    /\ (~blocked /\ WaitMode(super_key_pressed_) = "select") => sock # <<>>
    /\ xqueue # <<>> \/ sock # <<>>
    /\ IF QueueAtNextEvent = <<>>
       THEN /\ blocked' = TRUE
            /\ sock' = <<>>
            /\ unflushed' = {}
            /\ errorDue' = (errorDue \/ FlushFails(unflushed))
            /\ UNCHANGED <<running, serverVars, homeAlive, homeOutlived, x2Vars, logVars, xqueue>>
       ELSE /\ blocked' = FALSE
            /\ LET e == Head(QueueAtNextEvent)
               IN CASE e.type = "KeyPress" -> DispatchKeyPress
                    [] e.type = "KeyRelease" -> DispatchKeyRelease
                    [] e.type = "MapRequest" -> DispatchMapRequest(e.window)
                    [] e.type = "ConfigureRequest" -> DispatchConfigureRequest(e)
                    [] OTHER -> DispatchDestroyNotify(e.window)
    /\ waited' = IF blocked THEN waited ELSE Waited(WaitMode(super_key_pressed_), FALSE)
    /\ UNCHANGED <<procVars, variant, launcherVars, now, physDown, holdStart, trigInHold, x1Vars, wVars>>

LoopInit == Init /\ variant = "X2"

LoopNext ==
    \/ SecondPasses
    \/ \E w \in Windows, o \in Owners : CreateWindowX(w, o)
    \/ KeyPressArrives
    \/ KeyReleaseArrives
    \/ \E w \in Windows : MapRequestArrives(w)
    \/ \E w \in Windows : ConfigureRequestArrives(w)
    \/ \E w \in Windows : ClientDestroys(w)
    \/ \E w \in Windows : DestroyNotifyArrives(w)
    \/ ErrorArrives
    \/ SelectTimeout
    \/ DispatchNext

LoopSpec == LoopInit /\ [][LoopNext]_vars

(***************************************************************************)
(* The process: main() from its entry to the event loop, and the home      *)
(* child it forks.                                                         *)
(***************************************************************************)
windowVars == <<serverVars, userVars, x2Vars, x1Vars, wVars, loopVars>>
eventVars == <<ev, evw, closed, sentcfg, fired, asked, homeEnds, trigInHold, keylog>>

\* main() is entered: nothing is resolved, opened or forked.  The compositor
\* starts without output and keyboard.
StartInit ==
    /\ WindowsInit
    /\ variant = "W" => (outputs = 0 /\ ~hasKeyboard)
    /\ running = TRUE
    /\ launches = 0
    /\ pc = "main"
    /\ exitCode = NoExit
    /\ argLen \in PathLens \cup {0}
    /\ cfg \in CfgFiles
    /\ home_application = NoPath
    /\ otherWM \in BOOLEAN
    /\ envSet = FALSE
    /\ hstate = "none"
    /\ hstatus = 0
    /\ henv = FALSE
    /\ childOnDisplay = FALSE
    /\ forkFailed = FALSE
    /\ startFailed = "none"

Min(a, b) == IF a < b THEN a ELSE b

\* strncpy(dst, src, n) of a string of len characters: the characters copied
strncpy(len, n) == Min(len, n)

\* fgets(buf, size, file): NULL at once at the end of the file, else at most
\* size - 1 characters, up to and with the first newline
fgets(file, size) ==
    IF file.kind = "empty" THEN [ok |-> FALSE, len |-> 0, nl |-> FALSE]
    ELSE LET total == file.len + (IF file.nl THEN 1 ELSE 0)
             got == Min(total, size - 1)
         IN [ok |-> TRUE, len |-> Min(file.len, got), nl |-> got > file.len]

\* buf[strcspn(buf, "\n")] = 0: the length left
StripNewline(line) == line.len

\* dendy_wm.c main: the home path from argv[1] or the configuration file
ResolveW(n, file) ==
    IF n > 0
    THEN [ok |-> TRUE, path |-> [src |-> "arg", len |-> strncpy(n, BufSize - 1)]]
    ELSE IF file.kind = "missing" THEN [ok |-> FALSE, path |-> NoPath]
    ELSE LET line == fgets(file, BufSize)
         IN IF ~line.ok THEN [ok |-> FALSE, path |-> NoPath]
            ELSE [ok |-> TRUE, path |-> [src |-> "cfg", len |-> StripNewline(line)]]

\* part_001, part_002, part_003 main: argv[1], or the usage message
ResolveX(n) ==
    IF n = 0 THEN [ok |-> FALSE, path |-> NoPath]
    ELSE [ok |-> TRUE, path |-> [src |-> "arg", len |-> n]]

\* (for comparison, a main() that forks the home application before it has
\* exported the display name)
NextPcForkBeforeEnv(v, p) ==
    CASE p = "main" -> "open"
      [] p = "open" -> "become"
      [] p = "become" -> "fork"
      [] OTHER -> "loop"

\* The order of main()'s steps.
NextPc(v, p) ==
    CASE p = "main" -> "open"
      [] p = "open" -> "become"
      [] p = "become" -> IF v = "W" THEN "setenv" ELSE "fork"
      [] p = "setenv" -> "fork"
      [] OTHER -> "loop"

\* (for comparison, a main() that returns 0 from a failed startup)
StartupFailureIsSuccess(v, step) == 0

\* The exit code of main() when a startup step fails (return 1; in part_001
\* Xlib's default error handler: exit(1)).
StartupFailureCode(v, step) == 1

\* main() ends in the startup step named.
ExitWith(code, step) ==
    /\ pc' = "exited"
    /\ exitCode' = code
    /\ running' = FALSE
    /\ startFailed' = step

Proceed ==
    /\ pc' = NextPc(variant, pc)
    /\ UNCHANGED <<exitCode, running, startFailed>>

\* main: the home path
ResolveHomePath ==
    /\ pc = "main"
    /\ LET r == IF variant = "W" THEN ResolveW(argLen, cfg) ELSE ResolveX(argLen)
       IN IF r.ok
          THEN /\ home_application' = r.path
               /\ Proceed
          ELSE /\ ExitWith(StartupFailureCode(variant, "main"), "main")
               /\ UNCHANGED home_application
    /\ UNCHANGED <<variant, launcherVars, windowVars, eventVars, launches, argLen, cfg, otherWM,
                   envSet, hstate, hstatus, henv, childOnDisplay, forkFailed>>

\* XOpenDisplay; wlr_backend_autocreate, wlr_renderer_autocreate,
\* wlr_allocator_autocreate
OpenDisplay(ok) ==
    /\ pc = "open"
    /\ IF ok THEN Proceed ELSE ExitWith(StartupFailureCode(variant, "open"), "open")
    /\ UNCHANGED <<variant, launcherVars, windowVars, eventVars, launches, argLen, cfg,
                   home_application, otherWM, envSet, hstate, hstatus, henv,
                   childOnDisplay, forkFailed>>

\* XSelectInput(SubstructureRedirectMask) and XSync: BadAccess when another
\* window manager has it; wl_display_add_socket_auto and wlr_backend_start.
\* The outcome when the rights are denied or not:
\* (for comparison, a startup that goes on whatever the server answered)
BecomeOutcomeIgnored(v, denied) == "ok"

BecomeOutcome(v, denied) == IF denied THEN "exit" ELSE "ok"

BecomeWM ==
    /\ pc = "become"
    /\ IF BecomeOutcome(variant, otherWM) = "ok"
       THEN Proceed
       ELSE ExitWith(StartupFailureCode(variant, "become"), "become")
    /\ UNCHANGED <<variant, launcherVars, windowVars, eventVars, launches, argLen, cfg,
                   home_application, otherWM, envSet, hstate, hstatus, henv,
                   childOnDisplay, forkFailed>>

\* dendy_wm.c main: setenv("WAYLAND_DISPLAY", socket, true)
SetDisplayEnv ==
    /\ pc = "setenv"
    /\ envSet' = TRUE
    /\ Proceed
    /\ UNCHANGED <<variant, launcherVars, windowVars, eventVars, launches, argLen, cfg,
                   home_application, otherWM, hstate, hstatus, henv,
                   childOnDisplay, forkFailed>>

\* Where main() goes when fork() fails: part_001 tests only fork() == 0.
ForkFailureOutcome(v) == IF v = "X1" THEN "loop" ELSE "exited"

\* launch_initial_app, start_initial_app, fork() in main of dendy_wm.c
LaunchHome(forkOk) ==
    /\ pc = "fork"
    /\ IF forkOk
       THEN /\ hstate' = "forked"
            /\ henv' = envSet
            /\ launches' = launches + 1
            /\ Proceed
            /\ UNCHANGED forkFailed
       ELSE /\ forkFailed' = TRUE
            /\ IF ForkFailureOutcome(variant) = "loop"
               THEN Proceed
               ELSE ExitWith(1, startFailed)
            /\ UNCHANGED <<hstate, henv, launches>>
    /\ UNCHANGED <<variant, launcherVars, windowVars, eventVars, argLen, cfg, home_application,
                   otherWM, envSet, hstatus, childOnDisplay>>

\* start_initial_app: the child calls XCloseDisplay(display) on the
\* connection it shares with the parent, before execl.
ChildClosesDisplay(v) == v = "X1"

\* _exit(127), _exit(1), exit(1) after a failed exec
ExecFailStatus(v) == IF v \in {"X2", "X3"} THEN 127 ELSE 1

\* The forked child: exec of the home path, which cannot succeed on an
\* empty path.
ChildExec(ok) ==
    /\ hstate = "forked"
    /\ ok => home_application.len > 0
    /\ childOnDisplay' = (childOnDisplay \/ ChildClosesDisplay(variant))
    /\ IF ok
       THEN /\ hstate' = "running"
            /\ UNCHANGED hstatus
       ELSE /\ hstate' = "zombie"
            /\ hstatus' = ExecFailStatus(variant)
    /\ UNCHANGED <<variant, launcherVars, running, windowVars, eventVars, launches, pc, exitCode,
                   argLen, cfg, home_application, otherWM, envSet, henv, forkFailed,
                   startFailed>>

\* The home application terminates.  No window manager waits for it.
ChildExit(st) ==
    /\ hstate = "running"
    /\ hstate' = "zombie"
    /\ hstatus' = st
    /\ UNCHANGED <<variant, launcherVars, running, windowVars, eventVars, launches, pc, exitCode,
                   argLen, cfg, home_application, otherWM, envSet, henv,
                   childOnDisplay, forkFailed, startFailed>>

StartNext ==
    \/ ResolveHomePath
    \/ \E ok \in BOOLEAN : OpenDisplay(ok)
    \/ BecomeWM
    \/ SetDisplayEnv
    \/ \E ok \in BOOLEAN : LaunchHome(ok)
    \/ \E ok \in BOOLEAN : ChildExec(ok)
    \/ \E st \in {0, 1} : ChildExit(st)

StartSpec == StartInit /\ [][StartNext]_vars

\* Every step of main() and of the child is taken in the end.
FairStartSpec == StartSpec /\ WF_vars(StartNext)

(***************************************************************************)
(* The claims.                                                             *)
(***************************************************************************)
HoldVariants == {"X2", "W"}

\* The user has held the hotkey for at least the hold threshold (2000 ms):
\* the numbers of ticks that make up 2000 ms or more.
HeldTicks == {d \in 0..MaxTime : d * 1000 >= HoldMs * TicksPerSec}
HeldForThreshold == (now - holdStart) \in HeldTicks

\* C1: in every reachable state at most one registered surface is designated
\* as the home surface.
C1_AtMostOneHome == Cardinality(HomeSurfaces) <= 1

\* C1 witness: the compositor holds two surfaces of the home application and
\* one of them is the home surface.
C1_Witness ==
    /\ variant = "W"
    /\ Cardinality(Range(windows)) = 2
    /\ \A w \in Range(windows) : wowner[w] = "home"
    /\ Cardinality(HomeSurfaces) = 1

\* C2: once a configure request has been dispatched while an output exists,
\* every mapped registered surface has the geometry of the output.
C2_MappedIsFullscreenAfterConfigure ==
    (ev = "configure" /\ outputs > 0) =>
        \A w \in Registered : wst[w] = "mapped" => geom[w] = FullGeom

\* C3: a press of the hotkey that is released before the hold threshold has
\* caused no close-all when it is released, and no close-all is issued while
\* the key is up.
C3_TapNeverClosesAll ==
    [][ /\ (variant \in HoldVariants /\ physDown /\ ~physDown' /\ ~HeldForThreshold)
            => trigInHold = 0
        /\ (variant \in HoldVariants /\ ~physDown') => ~fired' ]_vars

\* C4: one continuous hold of the hotkey issues close-all at most once.
C4_OneCloseAllPerHold == variant \in HoldVariants => trigInHold <= 1

\* C5: when close-all runs, the close request goes to every registered surface
\* but the home surface, and the home surface, when it is registered and
\* mapped, is then on top and has the input focus.
C5_CloseOthersThenFocusHome ==
    (fired /\ running) =>
        /\ closed = Registered \ HomeSurfaces
        /\ \A h \in HomeSurfaces : wst[h] = "mapped" => (top = h /\ focus = h)

\* C6: a hotkey held for the hold threshold without keyup or further key event
\* eventually gets its close-all.
C6_HoldEventuallyClosesAll ==
    (variant \in HoldVariants /\ running /\ physDown /\ trigInHold = 0 /\ HeldForThreshold)
        ~> (trigInHold # 0 \/ ~physDown \/ ~running)

\* C7: the X window managers have launched the home application once at
\* start and once more for each home surface destroyed.
C7_OneLaunchPerHomeEnd == variant \in {"X1", "X2"} => launches = 1 + homeEnds

\* C8: once a home surface has been destroyed, a surface designated home
\* belongs to the home application.
C8_HomeBelongsToHomeApp ==
    homeEnds > 0 => \A h \in HomeSurfaces : wowner[h] = "home"

\* C9: the XConfigureWindow call that answers a configure request carries the
\* full-output geometry and none of the requested values, and every geometry
\* field the request named has the full-output value afterwards.
C9_ConfigureReplyIsFullOutput ==
    (sentcfg.sent /\ running) =>
        /\ \A f \in GeomFields :
              sentcfg.changes[f] = FullGeom[f] /\ sentcfg.changes[f] # ClientGeom[f]
        /\ \A f \in sentcfg.mask \cap GeomFields : geom[evw][f] = FullGeom[f]

\* C9 witness: a mapped window asked for 400x300 and was answered.
C9_Witness ==
    /\ variant = "X2"
    /\ sentcfg.sent
    /\ "width" \in sentcfg.mask
    /\ wst[evw] = "mapped"
    /\ wowner[evw] = "game"

\* C10: when a window of a second application is mapped while the home
\* surface is mapped (an output and a keyboard being present), it is
\* registered, fullscreen, on top and focused, every surface registered before
\* still is, and the home designation is unchanged.
C10_SecondAppSurface ==
    [][ \A w \in Windows :
          ( /\ variant \in HoldVariants
            /\ hasKeyboard
            /\ outputs' > 0
            /\ \E h \in HomeSurfaces : wst[h] = "mapped"
            /\ wowner[w] = "game"
            /\ wst[w] # "mapped"
            /\ wst'[w] = "mapped" )
          => /\ w \in Registered'
             /\ geom'[w] = FullGeom
             /\ top' = w
             /\ focus' = w
             /\ Registered \subseteq Registered'
             /\ HomeSurfaces' = HomeSurfaces ]_vars

\* C11: no event makes the window manager process exit: the window managers
\* of class WindowManager are running in every reachable state.
C11_NeverExits == variant \in {"X2", "X3"} => running

\* C12: when the destroy of the last window a close-all asked to close is
\* dispatched while the home surface is registered and mapped and a registered
\* surface has the focus, the window manager is still running, the registry holds the home surface and nothing
\* else, and the home surface has the input focus.
C12_OnlyHomeLeftAfterCloseAll ==
    [][ ( /\ variant \in HoldVariants
          /\ asked # {}
          /\ asked' = {}
          /\ ev' = "destroy"
          /\ focus \in Registered
          /\ \E h \in HomeSurfaces : wst[h] = "mapped" )
        => /\ running'
           /\ HomeSurfaces' # {}
           /\ Registered' = HomeSurfaces'
           /\ focus' \in HomeSurfaces' ]_vars

\* C13: a home child that has terminated is eventually reaped by the window
\* manager.
C13_TerminatedChildIsReaped == (hstate = "zombie") ~> (hstate = "reaped")

C16_HomePathResolution ==
    ( /\ variant \in {"W", "X2"}
      /\ pc # "main"
      /\ argLen < BufSize
      /\ cfg.len < BufSize )
    => /\ argLen > 0 => home_application = [src |-> "arg", len |-> argLen]
       /\ (argLen = 0 /\ cfg.kind = "line" /\ cfg.len > 0)
              => home_application = [src |-> "cfg", len |-> cfg.len]
       /\ (argLen = 0 /\ cfg.kind \in {"missing", "empty"})
              => /\ pc = "exited"
                 /\ exitCode = 1
                 /\ launches = 0
                 /\ hstate = "none"

\* C17: when exec fails in the forked child, the child ends with a non-zero
\* status, has sent nothing on the window manager's display connection, and
\* the parent's position, run flag and launch count are unchanged.
C17_ExecFailureStaysInChild ==
    [][ (hstate = "forked" /\ hstate' = "zombie")
        => /\ hstatus' # 0
           /\ ~childOnDisplay'
           /\ pc' = pc
           /\ running' = running
           /\ launches' = launches ]_vars

\* C18: a failed fork of the home application never terminates the window
\* manager.
C18_ForkFailureKeepsRunning ==
    (variant \in {"W", "X2"} /\ forkFailed) => (running /\ pc # "exited")

\* C19: a fullscreen operation on a surface that directly follows a
\* fullscreen operation on the same surface (the map request, or a configure
\* request covering the same fields) leaves the surface's geometry as the
\* first one left it.
C19_FullscreenIdempotent ==
    [][ \A w \in Windows :
          ( /\ ev' = "configure"
            /\ evw' = w
            /\ sentcfg'.sent
            /\ evw = w
            /\ \/ ev = "map"
               \/ /\ ev = "configure"
                  /\ sentcfg.sent
                  /\ running'
                  /\ (sentcfg'.mask \cap GeomFields) \subseteq sentcfg.mask )
          => geom'[w] = geom[w] ]_vars

\* C19 witness: a mapped window whose last event was a configure request for
\* all four fields, so both fullscreen operations have been applied to it.
C19_Witness ==
    /\ variant = "X2"
    /\ ev = "configure"
    /\ sentcfg.sent
    /\ GeomFields \subseteq sentcfg.mask
    /\ evw \in Windows
    /\ wst[evw] = "mapped"
    /\ geom[evw] = FullGeom

\* C20: in the compositor, WAYLAND_DISPLAY is set in the process environment
\* whenever a fork is about to happen or has happened, and every child that
\* was forked has it in its environment.
C20_EnvSetBeforeFork ==
    variant = "W" =>
        /\ (pc \in {"fork", "loop"} \/ launches > 0 \/ forkFailed) => envSet
        /\ hstate # "none" => henv

\* C20 witness: the compositor's home child has been forked and has the
\* variable.
C20_Witness ==
    /\ variant = "W"
    /\ hstate = "forked"
    /\ launches = 1
    /\ henv

\* C21: a hotkey keydown dispatched while the hotkey is already recorded as
\* pressed leaves the pressed flag set and the recorded press time as it was.
C21_RepeatKeydownKeepsPressTime ==
    [][ (ev' = "keydown" /\ now' = now)
        => /\ (variant = "X2" /\ super_key_pressed_)
                 => (super_key_pressed_' /\ super_press_start_' = super_press_start_)
           /\ (variant = "W" /\ enter_held)
                 => (enter_held' /\ enter_press_time' = enter_press_time) ]_vars

\* C21 witness: the compositor has handled a keydown that came two seconds
\* after the press it recorded (only a keydown received while the key was
\* held runs the close branch), and still has that press time.
C21_Witness ==
    /\ variant = "W"
    /\ ev = "keydown"
    /\ fired
    /\ enter_held
    /\ TvSec(now) - TvSec(enter_press_time) >= HoldSec

\* C22: whenever the last handler ran close-all, at least the hold threshold
\* of 2000 ms lies between the recorded press time and the clock.
C22_TriggerOnlyAfterThreshold ==
    (variant \in HoldVariants /\ fired) =>
        ElapsedMs(IF variant = "W" THEN enter_press_time ELSE super_press_start_, now)
            >= HoldMs

\* C23: an iteration of the event loop that took the select() timeout branch
\* (the hold-duration check) began with no event waiting in Xlib's queue.
C23_TimeoutOnlyWhenNothingPending ==
    waited.timedOut => waited.queued = 0

\* C24: every iteration of the event loop waited in select() with the poll
\* timeout when it began with the hotkey pressed, and in the blocking
\* XNextEvent when it began with the hotkey not pressed; and the loop never
\* sleeps in XNextEvent while the hotkey is pressed.
C24_FiniteWaitIffPressed ==
    /\ waited.how # "none" => (waited.how = "select" <=> waited.pressed)
    /\ super_key_pressed_ => ~blocked

\* The most recently created of the windows in S (ids are given in order of
\* creation).
Newest(S) == CHOOSE w \in S : \A v \in S : v <= w

\* C25: when a surface that had focus and is not the home surface is
\* destroyed and other surfaces stay registered, focus goes to the most
\* recently created of the surfaces that stay registered, that surface being
\* mapped (dendy_wm.c, part_002, part_003).
C25_FocusGoesToNewestRemaining ==
    [][ ( /\ variant \in {"W", "X2", "X3"}
          /\ ev' = "destroy"
          /\ focus = evw'
          /\ evw' \in Registered
          /\ evw' \notin HomeSurfaces
          /\ Registered' # {}
          /\ wst'[Newest(Registered')] = "mapped" )
        => focus' = Newest(Registered') ]_vars

\* C26: the registry holds the surfaces announced and not yet destroyed: a
\* surface leaves the registry only by the destroy event of that very surface,
\* and the destroy event of a surface takes it out of the registry
\* (dendy_wm.c, part_002).
C26_OnlyDestroyRemoves ==
    [][ (variant \in {"W", "X2"}) =>
          (\A w \in Windows :
              /\ (w \in Registered /\ w \notin Registered')
                     => (ev' = "destroy" /\ evw' = w)
              /\ (ev' = "destroy" /\ evw' = w) => w \notin Registered') ]_vars

\* The surface that holds the home designation, registered or not.
Designated ==
    CASE variant = "W" -> { w \in Windows : wpid[w] = home_pid }
      [] variant = "X1" -> { w \in Windows : w = window_zero }
      [] variant = "X2" -> { w \in Windows : w = initial_window_ }
      [] OTHER -> {}

\* C27: the home designation is given to a surface only when no surface holds
\* it, and never while a home process whose designated surface was destroyed
\* is still running: it does not move while that process lives.
C27_HomeDesignationNotMoved ==
    [][ \A w \in Windows :
          (w \in Designated' /\ w \notin Designated)
              => (Designated = {} /\ ~homeOutlived) ]_vars

\* Window w is the first surface announced to the window manager after the
\* launch of the home application: the first one created (dendy_wm.c), the
\* first one asking to be mapped (part_002, which exits once its registry is
\* empty again).
FirstSurface(w) ==
    CASE variant = "W" -> \A v \in Windows : v >= w
      [] variant = "X2" -> client_windows_ = <<>>
      [] OTHER -> FALSE

\* C28: once the first surface after the launch of the home application is
\* mapped, an output being there, the registry holds it, it is the home
\* surface and its geometry is that of the output (dendy_wm.c, part_002).
C28_FirstSurfaceIsHomeFullscreen ==
    [][ \A w \in Windows :
          (ev' = "map" /\ evw' = w /\ FirstSurface(w) /\ outputs' > 0)
              => /\ w \in Registered'
                 /\ HomeSurfaces' = {w}
                 /\ geom'[w] = FullGeom ]_vars

\* C29: when an output is added, every registered surface that is mapped has
\* the geometry of the output afterwards, also one that was created while no
\* output existed (dendy_wm.c).
C29_NewOutputRefitsSurfaces ==
    [][ (ev' = "output" /\ outputs' > outputs)
          => \A w \in Registered' :
                 wst'[w] = "mapped" => geom'[w] = FullGeom ]_vars

\* C30: a keyboard event whose key is not the hotkey reaches the surface
\* that has focus with the keycode and the press or release state it came
\* with, and leaves the held flag, the press time and the registry as they
\* were (dendy_wm.c, part_002).
C30_OtherKeysForwardedUnchanged ==
    [][ (ev' = "key")
          => /\ focus # None => (keylog'.to = focus /\ keylog'.sent = keylog'.event)
             /\ enter_held' = enter_held
             /\ enter_press_time' = enter_press_time
             /\ super_key_pressed_' = super_key_pressed_
             /\ super_press_start_' = super_press_start_
             /\ Registered' = Registered ]_vars

\* C32: in part_002, whenever initial_window_ is set it is an element of
\* client_windows_: the home designation never names a window that a destroy
\* or unmap event has taken out of the registry.
C32_InitialWindowIsRegistered ==
    (variant = "X2" /\ running /\ initial_window_ # None)
        => initial_window_ \in Range(client_windows_)

\* C33: client_windows_ never holds the same window id twice (part_002,
\* part_003).
C33_NoDuplicateRecords ==
    (variant \in {"X2", "X3"}) => Cardinality(Range(client_windows_)) = Len(client_windows_)

\* The events that have arrived and are not dispatched, the errors left out.
PendingEvents ==
    Cardinality({ i \in DOMAIN sock : sock[i].type # "Error" }) + Len(xqueue)

C34_KeysForwardedOnceUnlessTriggered ==
    (variant = "W" /\ ev \in {"key", "keydown", "keyup"}) =>
        IF ev = "keydown" /\ fired THEN keylog.times = 0
        ELSE /\ keylog.times = 1
             /\ keylog.to = focus
             /\ keylog.sent = keylog.event
             /\ ev = "keydown" => keylog.event = KeyEvent(ReturnKey, "pressed")
             /\ ev = "keyup" => keylog.event = KeyEvent(ReturnKey, "released")

\* A Return press has triggered the close-all and was not passed on.
C34_Witness ==
    variant = "W" /\ ev = "keydown" /\ fired /\ keylog.times = 0 /\ focus # None

(***************************************************************************)
(* dendy_launcher: Run() loads the applications and then, frame by frame,  *)
(* calls UpdateAnimations() and HandleInput().                             *)
(***************************************************************************)
\* C++ integer division and remainder truncate towards zero
CDiv(a, b) == IF a >= 0 THEN a \div b ELSE -((-a) \div b)
CRem(a, b) == IF a >= 0 THEN a % b ELSE -((-a) % b)

Arrows == {"KEY_RIGHT", "KEY_LEFT", "KEY_DOWN", "KEY_UP"}

\* What one frame can read: the window's width, the cell clicked with the
\* left button (-1: none), the keys pressed, the gamepad's stick and button.
FrameInput(width, click, keys, enter, pad, axisX, axisY, button) ==
    [width |-> width, click |-> click, keys |-> keys, enter |-> enter, pad |-> pad,
     axisX |-> axisX, axisY |-> axisY, button |-> button]
\* The frames followed: a frame with a new width, a frame with any keys, a
\* frame with any gamepad input, and frames in which a click comes together
\* with a key, Enter, the stick and the gamepad's button.
Inputs ==
    { FrameInput(w, -1, {}, FALSE, FALSE, 0, 0, FALSE) : w \in Widths }
    \cup { FrameInput(lastWindowWidth, -1, k, e, FALSE, 0, 0, FALSE) :
               k \in SUBSET Arrows, e \in BOOLEAN }
    \cup { FrameInput(lastWindowWidth, -1, {}, FALSE, TRUE, x[1], x[2], b) :
               x \in (-1..1) \X (-1..1), b \in BOOLEAN }
    \cup { FrameInput(lastWindowWidth, c, k, e, b, IF b THEN 1 ELSE 0, 0, b) :
               c \in 0..(Len(apps) - 1), k \in {{}, {"KEY_RIGHT"}},
               e \in BOOLEAN, b \in BOOLEAN }

\* a click, an arrow, Enter or Space, the stick or the gamepad's button
Pressed(in) ==
    in.click >= 0 \/ in.keys # {} \/ in.enter \/ in.axisX # 0 \/ in.axisY # 0 \/ in.button

\* The members HandleInput works on, as it goes through its steps.
Members ==
    [sel |-> selectedIndex, cols |-> currentGridCols, anim |-> animState,
     timer |-> animTimer, pend |-> pendingLaunchCommand, cool |-> gamepadCooldown,
     calls |-> <<>>]

\* void LaunchApp(int index)
LaunchApp(m, index) ==
    IF index >= 0 /\ index < Len(apps)
    THEN [m EXCEPT !.anim = "ANIM_LAUNCHING", !.timer = 0,
                   !.pend = <<apps[index + 1]>>,
                   !.calls = Append(@, index)]
    ELSE [m EXCEPT !.calls = Append(@, index)]

\* (for comparison, a resize that does not bring the index back into the list)
CheckWindowResizeNoClamp(m, windowWidth) ==
    LET newGridCols == CalculateGridColumns(windowWidth)
        row == CDiv(m.sel, m.cols)
        col == Min(CRem(m.sel, m.cols), newGridCols - 1)
    IN  IF windowWidth = lastWindowWidth THEN m
        ELSE [m EXCEPT !.cols = newGridCols,
                       !.sel = IF newGridCols # m.cols /\ m.sel >= 0
                               THEN row * newGridCols + col
                               ELSE @]

\* void CheckWindowResize(): a new width gives a new column count, and the
\* selection keeps its row and (clamped) column, clamped to the last entry.
\* (A new height alone leaves the column count as it is.)
CheckWindowResize(m, windowWidth) ==
    LET newGridCols == CalculateGridColumns(windowWidth)
        row == CDiv(m.sel, m.cols)
        col == Min(CRem(m.sel, m.cols), newGridCols - 1)
    IN  IF windowWidth = lastWindowWidth THEN m
        ELSE [m EXCEPT !.cols = newGridCols,
                       !.sel = IF newGridCols # m.cols /\ m.sel >= 0
                               THEN Min(row * newGridCols + col, Len(apps) - 1)
                               ELSE @]

\* HandleInput, mouse: the cell under the pointer is launched on a click
MouseInput(m, in) == IF in.click >= 0 THEN LaunchApp(m, in.click) ELSE m

\* HandleInput, keyboard navigation: the four arrows, then Enter or Space
KeyRight(m, pressed) ==
    IF pressed /\ CRem(m.sel, m.cols) < m.cols - 1 /\ m.sel < Len(apps) - 1
    THEN [m EXCEPT !.sel = @ + 1] ELSE m
KeyLeft(m, pressed) ==
    IF pressed /\ CRem(m.sel, m.cols) > 0 THEN [m EXCEPT !.sel = @ - 1] ELSE m
KeyDown(m, pressed) ==
    IF pressed /\ m.sel + m.cols < Len(apps) THEN [m EXCEPT !.sel = @ + m.cols] ELSE m
KeyUp(m, pressed) ==
    IF pressed /\ m.sel - m.cols >= 0 THEN [m EXCEPT !.sel = @ - m.cols] ELSE m
KeyboardInput(m, in) ==
    LET m1 == KeyRight(m, "KEY_RIGHT" \in in.keys)
        m2 == KeyLeft(m1, "KEY_LEFT" \in in.keys)
        m3 == KeyDown(m2, "KEY_DOWN" \in in.keys)
        m4 == KeyUp(m3, "KEY_UP" \in in.keys)
    IN  IF in.enter THEN LaunchApp(m4, m4.sel) ELSE m4

\* HandleInput, gamepad navigation: the stick moves the selection when the
\* cooldown has run out, the lower face button launches
\* (any move changes the index: the cooldown starts when the index changed)
GamepadMove(m, in) ==
    LET moved == KeyUp(KeyDown(KeyLeft(KeyRight(m, in.axisX > 0), in.axisX < 0),
                               in.axisY > 0), in.axisY < 0)
    IN  IF m.cool > 0 THEN m
        ELSE IF moved.sel # m.sel THEN [moved EXCEPT !.cool = GamepadCooldownTime]
        ELSE m
GamepadInput(m, in) ==
    IF ~in.pad THEN m
    ELSE LET m5 == GamepadMove([m EXCEPT !.cool = IF @ - frameTime < 0 THEN 0
                                                 ELSE @ - frameTime], in)
         IN  IF in.button THEN LaunchApp(m5, m5.sel) ELSE m5

\* HandleInput: if (animState == ANIM_LAUNCHING || apps.empty()) return;
InputIgnored == animState = "ANIM_LAUNCHING" \/ apps = <<>>

\* Run(): LoadApplications(); the entries found on the disk replace the list
LoadApplications ==
    /\ lpc = "load"
    /\ \E n \in 0..MaxApps :
         /\ apps' = [i \in 1..n |-> i]
         /\ selectedIndex' = IF n = 0 THEN -1
                             ELSE IF selectedIndex >= n THEN 0 ELSE selectedIndex
    /\ lpc' = "update"
    /\ UNCHANGED <<currentGridCols, lastWindowWidth, animState, animTimer,
                   pendingLaunchCommand, wasFocusedLastFrame, gamepadCooldown,
                   frameTime, focused, prevFocused, inputSeen, calls, ran>>
    /\ UNCHANGED <<variant, running, windowVars, logVars, procVars>>

\* (for comparison, a launch that runs the command and keeps it pending)
RunPendingKeep(progressDone) == pendingLaunchCommand

\* UpdateAnimations, ANIM_LAUNCHING: pendingLaunchCommand.clear() after system()
RunPending(progressDone) ==
    IF progressDone /\ pendingLaunchCommand # <<>> THEN <<>> ELSE pendingLaunchCommand

\* (for comparison, a restore that does not look at the frame before)
RestoreAnyFocus(f) == f

\* UpdateAnimations, ANIM_LAUNCHING: if (IsWindowFocused()) if (!wasFocusedLastFrame)
Restore(f) == f /\ ~wasFocusedLastFrame

\* void UpdateAnimations(): one frame's step of the animation state machine
UpdateAnimations ==
    /\ lpc = "update"
    /\ \E dt \in FrameTimes, f \in BOOLEAN :
         LET timer == Min(animTimer + dt, MaxTimer)
             fadeDone == timer > FADE_IN_DURATION + Len(apps) * TILE_STAGGER_DELAY
                                   + TILE_ANIMATION_DURATION
             progressDone == timer >= LAUNCH_ANIMATION_DURATION
         IN  /\ frameTime' = dt
             /\ focused' = f
             /\ prevFocused' = focused
             /\ CASE animState = "ANIM_FADE_IN" ->
                       /\ animState' = IF fadeDone THEN "ANIM_NORMAL" ELSE animState
                       /\ animTimer' = timer
                       /\ UNCHANGED <<pendingLaunchCommand, wasFocusedLastFrame, ran, calls>>
                  [] animState = "ANIM_LAUNCHING" ->
                       /\ ran' = IF progressDone /\ pendingLaunchCommand # <<>>
                                 THEN ran \o pendingLaunchCommand ELSE ran
                       /\ pendingLaunchCommand' = RunPending(progressDone)
                       /\ animState' = IF Restore(f) THEN "ANIM_FADE_IN" ELSE animState
                       /\ animTimer' = IF Restore(f) THEN 0 ELSE timer
                       /\ wasFocusedLastFrame' = f
                       /\ calls' = IF Restore(f) THEN <<>> ELSE calls
                  [] animState = "ANIM_NORMAL" ->
                       /\ animTimer' = timer
                       /\ UNCHANGED <<animState, pendingLaunchCommand,
                                      wasFocusedLastFrame, ran, calls>>
    /\ lpc' = "input"
    /\ UNCHANGED <<apps, selectedIndex, currentGridCols, lastWindowWidth,
                   gamepadCooldown, inputSeen>>
    /\ UNCHANGED <<variant, running, windowVars, logVars, procVars>>

\* void HandleInput(): resize, mouse, keyboard, gamepad, in this order
HandleInput ==
    /\ lpc = "input"
    /\ \E in \in Inputs :
         LET m == IF InputIgnored THEN Members
                  ELSE GamepadInput(KeyboardInput(MouseInput(
                           CheckWindowResize(Members, in.width), in), in), in)
         IN  /\ inputSeen' = Pressed(in)
             /\ selectedIndex' = m.sel
             /\ currentGridCols' = m.cols
             /\ lastWindowWidth' = IF InputIgnored THEN lastWindowWidth ELSE in.width
             /\ animState' = m.anim
             /\ animTimer' = m.timer
             /\ pendingLaunchCommand' = m.pend
             /\ gamepadCooldown' = m.cool
             /\ calls' = IF m.calls # <<>> THEN m.calls ELSE calls
             /\ ran' = IF m.calls # <<>> THEN <<>> ELSE ran
    /\ lpc' = "update"
    /\ UNCHANGED <<apps, wasFocusedLastFrame, frameTime, focused, prevFocused>>
    /\ UNCHANGED <<variant, running, windowVars, logVars, procVars>>

LauncherInit == Init /\ variant = "W" /\ outputs = 1 /\ hasKeyboard

LauncherNext ==
    \/ LoadApplications
    \/ UpdateAnimations
    \/ HandleInput

LauncherSpec == LauncherInit /\ [][LauncherNext]_vars

\* C35: in the launcher, whenever the application list is not empty, the
\* selected index lies within [0, apps.size() - 1], whatever keyboard and
\* gamepad navigation, changes of the column count and loading of the list
\* came before.
C35_SelectedIndexInRange ==
    apps # <<>> => (selectedIndex >= 0 /\ selectedIndex <= Len(apps) - 1)

\* The window was narrowed to the smallest column count and the selection
\* was moved to the last entry, in the second row.
C35_Witness ==
    /\ Len(apps) = MaxApps
    /\ lastWindowWidth # INITIAL_WINDOW_WIDTH
    /\ currentGridCols = MIN_GRID_COLS
    /\ selectedIndex = Len(apps) - 1

\* C36: while the state is ANIM_LAUNCHING HandleInput changes nothing; the
\* state leaves ANIM_LAUNCHING only for ANIM_FADE_IN, in UpdateAnimations, in
\* a frame in which the window is focused and was not in the frame before;
\* ANIM_FADE_IN is left only for ANIM_NORMAL or, by a launch in HandleInput,
\* for ANIM_LAUNCHING; ANIM_NORMAL is left only by a launch.
C36_AnimationStateMachine ==
    [][ /\ (lpc = "input" /\ animState = "ANIM_LAUNCHING")
             => UNCHANGED <<apps, selectedIndex, currentGridCols, lastWindowWidth,
                            animState, animTimer, pendingLaunchCommand,
                            wasFocusedLastFrame, gamepadCooldown, calls, ran>>
        /\ (animState = "ANIM_LAUNCHING" /\ animState' # "ANIM_LAUNCHING")
             => (animState' = "ANIM_FADE_IN" /\ lpc = "update"
                 /\ focused' /\ ~prevFocused')
        /\ (animState = "ANIM_FADE_IN" /\ animState' # "ANIM_FADE_IN")
             => \/ (animState' = "ANIM_NORMAL" /\ lpc = "update")
                \/ (animState' = "ANIM_LAUNCHING" /\ lpc = "input"
                    /\ pendingLaunchCommand' # <<>>)
        /\ (animState = "ANIM_NORMAL" /\ animState' # "ANIM_NORMAL")
             => (animState' = "ANIM_LAUNCHING" /\ lpc = "input"
                 /\ pendingLaunchCommand' # <<>>) ]_vars

\* The launcher has just come back from a launch whose command was run: the
\* window is focused again, and the input of the frame before, read while the
\* state was ANIM_LAUNCHING, was left alone.
C36_Witness ==
    /\ animState = "ANIM_FADE_IN" /\ animTimer = 0 /\ lpc = "input"
    /\ focused /\ ~prevFocused
    /\ inputSeen /\ ran # <<>>

\* C37: since the last LaunchApp at most one command was run; a command is
\* run only in ANIM_LAUNCHING when the launch animation's progress has
\* reached 1, it is the command of the last LaunchApp call of the frame that
\* launched, and the pending command is empty afterwards.
C37_OneCommandPerLaunch ==
    [][ /\ Len(ran') <= 1
        /\ (ran' # ran /\ ran' # <<>>)
             => /\ animState = "ANIM_LAUNCHING"
                /\ Min(animTimer + frameTime', MaxTimer) >= LAUNCH_ANIMATION_DURATION
                /\ calls # <<>>
                /\ ran' = <<apps[calls[Len(calls)] + 1]>>
                /\ pendingLaunchCommand' = <<>>
        /\ (lpc = "input" /\ calls' # calls)
             => calls' # <<>> /\ pendingLaunchCommand' = <<apps[calls'[Len(calls')] + 1]>> ]_vars

\* One frame called LaunchApp for two different entries, and the command of
\* the second one was run.
C37_Witness ==
    /\ animState = "ANIM_LAUNCHING"
    /\ Len(calls) >= 2
    /\ calls[1] # calls[Len(calls)]
    /\ ran = <<apps[calls[Len(calls)] + 1]>>

=============================================================================
